---- MODULE Spec2Model ----
(***************************************************************************)
(* A model of the Decaf compiler (yangfawu/decaf-compiler): the class      *)
(* dependency tree (decaf_ast.py), the type checker (decaf_typecheck.py    *)
(* and the compute_type methods of decaf_ast.py), the layout pass          *)
(* (decaf_codegen.py) and the driver (decaf_compiler.py).                  *)
(*                                                                         *)
(* Three specifications share the variables:                               *)
(*   SpecTree     calls register_class and is_subtype on the process-wide  *)
(*                DependencyTree;                                          *)
(*   SpecResolve  calls register_class, resolve_field and resolve_method   *)
(*                on it, for classes with members;                         *)
(*   Spec         runs main() of decaf_compiler.py on a program.           *)
(***************************************************************************)
EXTENDS Integers, Sequences, FiniteSets, TLC

VARIABLES
    CLASS_NAME_TO_NODE,     \* DependencyTree.CLASS_NAME_TO_NODE: class name -> node
    DEPENDENCY_TREE_ROOT,   \* DependencyTree.DEPENDENCY_TREE_ROOT: the synthetic root node
    last,                   \* the last DependencyTree call made by SpecTree, or the last
                            \* lookup_symbol call made by SpecScope, and what it returned
    source,                 \* the program text handed to the parser (its class declarations)
    classes,                \* main(): the list of ClassRecords the parser returned
    pc,                     \* main(): the statement the driver is at
    k,                      \* index of the class the current stage is working on
    fieldOffset,            \* FieldRecord.offset of every field: <<class index, field index>> -> offset
    size,                   \* ClassRecord.size of every class: class index -> size
    sizeWrites,             \* how often ClassRecord.size of each class was assigned
    static_offset_gen,      \* resolve_sizes_and_offsets: Counter.curr of the static counter
    static_slots,           \* main(): the value resolve_sizes_and_offsets returned
    abcmc,                  \* main(): the code list built so far (one entry per class, then the directive)
    outFile,                \* the output file: "absent", "open" or "written"
    exitCode,               \* the exit status of the process once it has ended
    stages,                 \* the stages that have started, in order
    temp_gen,               \* GlobalTemporaryRegisterGenerator: Counter.start and Counter.curr
    label_gen,              \* LabelGenerator: the labels taken so far
    value_reg,              \* VariableRecord.value_reg of the variables that have one
    sites,                  \* what generate_code did at each call, if and member, in order
    outLines,               \* the lines print_code wrote to the output file
    scope_stack,            \* the parser: Scope.current and its parents, outermost first
    symbol_tables,          \* the parser: the symbol_table dicts the scopes refer to
    variable_tables,        \* the parser: the variable_table lists the scopes and members refer to
    id_gen,                 \* FieldRecord.id_gen, MethodRecord.id_gen, ConstructorRecord.id_gen
    created,                \* the field, method and constructor records created, in order
    parsed,                 \* the class records the parser has built
    last_add,               \* the last Scope.add_symbol call and what it did
    parse_state,            \* the parser: "idle", "parsing" or "raised"
    previous                \* what an earlier run of main() on the same file ended with

treeVars == <<CLASS_NAME_TO_NODE, DEPENDENCY_TREE_ROOT>>
codeVars == <<temp_gen, label_gen, value_reg, sites>>
runVars == <<source, classes, pc, k, fieldOffset, size, sizeWrites,
             static_offset_gen, static_slots, abcmc, outFile, exitCode, stages,
             temp_gen, label_gen, value_reg, sites, outLines>>
buildVars == <<scope_stack, symbol_tables, variable_tables, id_gen, created, parsed,
               last_add, parse_state>>
mainVars == <<runVars, buildVars, previous>>
vars == <<CLASS_NAME_TO_NODE, DEPENDENCY_TREE_ROOT, last, source, classes, pc, k,
          fieldOffset, size, sizeWrites, static_offset_gen, static_slots, abcmc,
          outFile, exitCode, stages, temp_gen, label_gen, value_reg, sites, outLines,
          scope_stack, symbol_tables, variable_tables, id_gen, created, parsed,
          last_add, parse_state, previous>>

(***************************************************************************)
(* Bounds of the model.                                                    *)
(***************************************************************************)
MaxClasses == 2     \* classes in a program handed to main()
MaxFields == 2      \* fields declared by one class of such a program

None == "None"      \* Python's None where a name (a string) is expected
NoId == 0           \* Python's None where an id (an integer from 1) is expected
NoRecord == [kind |-> "None"]   \* Python's None where a record is expected
ROOT == "ROOT"      \* the name the model gives the synthetic root node

\* Class names; the DependencyTree specifications use the first three.
AllNames == <<"A", "B", "C", "D", "E">>
ClassNames == {AllNames[i] : i \in 1..3}

(***************************************************************************)
(* Types: decaf_ast.py, TypeRecord and its three subclasses.               *)
(***************************************************************************)
BuiltInTypeRecord(t) == [kind |-> "builtin", type |-> t]
UserTypeRecord(c) == [kind |-> "user", type |-> c]
ClassLiteralTypeRecord(c) == [kind |-> "class-literal", type |-> c]

INT == BuiltInTypeRecord("int")
FLOAT == BuiltInTypeRecord("float")
BOOLEAN_T == BuiltInTypeRecord("boolean")    \* BuiltInTypeRecordCollection.BOOLEAN
STRING_T == BuiltInTypeRecord("string")      \* BuiltInTypeRecordCollection.STRING
VOID == BuiltInTypeRecord("void")
NULL == BuiltInTypeRecord("null")
ERROR == BuiltInTypeRecord("error")

BuiltInTypeRecordCollection == {INT, FLOAT, BOOLEAN_T, STRING_T, VOID, NULL, ERROR}

(***************************************************************************)
(* Records: decaf_ast.py, FieldRecord, MethodRecord, ConstructorRecord and *)
(* ClassRecord.  A body is the block statement of the member.              *)
(***************************************************************************)
FieldRecord(name, visibility, applicability, type, containing_class) ==
    [name |-> name, visibility |-> visibility, applicability |-> applicability,
     type |-> type, containing_class |-> containing_class]

MethodRecord(name, visibility, applicability, parameters, return_type, body, containing_class) ==
    [name |-> name, visibility |-> visibility, applicability |-> applicability,
     parameters |-> parameters, return_type |-> return_type, body |-> body,
     containing_class |-> containing_class]

\* VariableRecord.__init__: the id is None until Scope.add_symbol assigns it.
VariableRecord(type, variable_kind, name) ==
    [type |-> type, variable_kind |-> variable_kind, name |-> name, id |-> NoId]

\* A VariableRecord once Scope.add_symbol has given it its id.
Variable(type, variable_kind, name, id) ==
    [VariableRecord(type, variable_kind, name) EXCEPT !.id = id]

ConstructorRecord(visibility, parameters, body, containing_class) ==
    [visibility |-> visibility, parameters |-> parameters, body |-> body,
     containing_class |-> containing_class]

ClassRecord(name, super_class_name, constructors, methods, fields) ==
    [name |-> name, super_class_name |-> super_class_name,
     constructors |-> constructors, methods |-> methods, fields |-> fields]

\* The key f"{applicability}:{name}" of ClassRecord.field_map / method_map.  The
\* applicability holds no colon, so the pair models the string one to one.
MemberKey(applicability, name) == <<applicability, name>>

Range(seq) == {seq[i] : i \in DOMAIN seq}

\* ClassRecord.__init__ raises on two constructors, on two methods with one key
\* and on two fields with one key.
ClassRecordRaises(constructors, methods, fields) ==
    \/ Len(constructors) > 1
    \/ \E i, j \in DOMAIN methods :
          i < j /\ MemberKey(methods[i].applicability, methods[i].name)
                     = MemberKey(methods[j].applicability, methods[j].name)
    \/ \E i, j \in DOMAIN fields :
          i < j /\ MemberKey(fields[i].applicability, fields[i].name)
                     = MemberKey(fields[j].applicability, fields[j].name)

\* ClassRecord.field_map: key -> FieldRecord.
field_map(record) ==
    [key \in {MemberKey(f.applicability, f.name) : f \in Range(record.fields)} |->
        CHOOSE f \in Range(record.fields) : MemberKey(f.applicability, f.name) = key]

\* ClassRecord.method_map: key -> MethodRecord.
method_map(record) ==
    [key \in {MemberKey(m.applicability, m.name) : m \in Range(record.methods)} |->
        CHOOSE m \in Range(record.methods) : MemberKey(m.applicability, m.name) = key]

(***************************************************************************)
(* DependencyTree: decaf_ast.py lines 142-297.  A node is known by the     *)
(* name of its class (the root by ROOT): CLASS_NAME_TO_NODE holds one node *)
(* per name and a node is created only when its name is entered.           *)
(***************************************************************************)
DependencyTreeNode(record) == [parent |-> None, record |-> record, subclasses |-> <<>>]

\* The state of the tree as one value.
Tree(map, root) == [map |-> map, root |-> root]

EmptyTree == Tree(<<>>, DependencyTreeNode(NoRecord))

\* parent.subclasses.append(node) for a parent that is the root or a class node.
AppendSubclass(tree, parent, name) ==
    IF parent = ROOT
    THEN Tree(tree.map,
              [tree.root EXCEPT !.subclasses = Append(tree.root.subclasses, name)])
    ELSE Tree([tree.map EXCEPT ![parent].subclasses = Append(@, name)], tree.root)

\* CLASS_NAME_TO_NODE[name] = node
PutNode(tree, name, node) ==
    Tree([n \in DOMAIN tree.map \cup {name} |->
            IF n = name THEN node ELSE tree.map[n]],
         tree.root)

\* register_class without the raise for an unknown super-class: the class is
\* linked under the root instead.
register_class_no_super_check(tree, record) ==
    LET name == record.name
        super_class_name == record.super_class_name
    IN  IF name \in DOMAIN tree.map
        THEN [raised |-> TRUE, tree |-> tree]
        ELSE LET parent == IF super_class_name /= None /\ super_class_name \in DOMAIN tree.map
                           THEN super_class_name ELSE ROOT
                 node == [DependencyTreeNode(record) EXCEPT !.parent = parent]
             IN  [raised |-> FALSE,
                  tree |-> PutNode(AppendSubclass(tree, parent, name), name, node)]

\* register_class without the raise for a duplicate class name: the node of
\* the name is made again and linked once more.
register_class_no_duplicate_check(tree, record) ==
    LET name == record.name
        super_class_name == record.super_class_name
    IN  IF super_class_name /= None /\ super_class_name \notin DOMAIN tree.map
        THEN [raised |-> TRUE, tree |-> tree]
        ELSE LET parent == IF super_class_name /= None THEN super_class_name ELSE ROOT
                 node == [DependencyTreeNode(record) EXCEPT !.parent = parent]
             IN  [raised |-> FALSE,
                  tree |-> PutNode(AppendSubclass(tree, parent, name), name, node)]

\* DependencyTree.register_class: the tree after the call and whether it raised.
register_class(tree, record) ==
    LET name == record.name
        super_class_name == record.super_class_name
    IN  IF name \in DOMAIN tree.map
        THEN [raised |-> TRUE, tree |-> tree]      \* duplicate class name
        ELSE IF super_class_name /= None /\ super_class_name \notin DOMAIN tree.map
        THEN [raised |-> TRUE, tree |-> tree]      \* cannot extend unknown class
        ELSE LET parent == IF super_class_name /= None THEN super_class_name ELSE ROOT
                 node == [DependencyTreeNode(record) EXCEPT !.parent = parent]
             IN  [raised |-> FALSE,
                  tree |-> PutNode(AppendSubclass(tree, parent, name), name, node)]

\* DependencyTree.BUILTIN_SUBTYPES: the dictionary has these four keys only.
BUILTIN_SUBTYPES ==
    [b \in {INT, FLOAT, BOOLEAN_T, STRING_T} |-> IF b = FLOAT THEN {INT} ELSE {}]

\* Results of a call that may raise: Python's True and False, or the exception.
True == "True"
False == "False"
KeyError == "KeyError"
Exception == "Exception"
Raised == [kind |-> "raise", type |-> Exception]  \* a raise where a record is expected
PyBool(b) == IF b THEN True ELSE False

\* DependencyTree.__builtin_is_subtype: BUILTIN_SUBTYPES[b] is a dictionary lookup.
builtin_is_subtype(a, b) ==
    IF a = b THEN True
    ELSE IF b \notin DOMAIN BUILTIN_SUBTYPES THEN KeyError
    ELSE PyBool(a \in BUILTIN_SUBTYPES[b])

\* node.parent of the node called curr; the root's parent is None.
ParentOf(tree, curr) == IF curr = ROOT THEN tree.root.parent ELSE tree.map[curr].parent

\* The while loop of __classname_is_subtype.
RECURSIVE AscendTo(_, _, _)
AscendTo(tree, curr, target) ==
    IF curr = None THEN FALSE
    ELSE IF curr = target THEN TRUE
    ELSE AscendTo(tree, ParentOf(tree, curr), target)

\* DependencyTree.__classname_is_subtype
classname_is_subtype(tree, a, b) ==
    IF a \notin DOMAIN tree.map THEN Exception
    ELSE IF b \notin DOMAIN tree.map THEN Exception
    ELSE PyBool(AscendTo(tree, a, b))

\* DependencyTree.is_subtype
is_subtype(tree, a, b) ==
    IF a = ERROR THEN False
    ELSE IF b = ERROR THEN False
    ELSE IF a.kind = "builtin"
    THEN IF b.kind = "builtin" THEN builtin_is_subtype(a, b)
         ELSE IF b.kind = "user" THEN PyBool(a = NULL)
         ELSE False
    ELSE IF a.kind = "user" /\ b.kind = "user"
    THEN classname_is_subtype(tree, a.type, b.type)
    ELSE IF a.kind = "class-literal" /\ b.kind = "class-literal"
    THEN classname_is_subtype(tree, a.type, b.type)
    ELSE False

\* DependencyTree.get_class_record
get_class_record(tree, name) ==
    IF name \in DOMAIN tree.map THEN tree.map[name].record ELSE NoRecord

RECURSIVE resolve_field_node(_, _, _)

\* __resolve_field that looks into the farthest ancestor first.
resolve_field_farthest(tree, class_node, key) ==
    IF class_node = ROOT THEN NoRecord
    ELSE LET up == resolve_field_node(tree, tree.map[class_node].parent, key)
         IN  IF up /= NoRecord THEN up
             ELSE IF key \in DOMAIN field_map(tree.map[class_node].record)
             THEN field_map(tree.map[class_node].record)[key]
             ELSE NoRecord

\* DependencyTree.__resolve_field
resolve_field_node(tree, class_node, key) ==
    IF class_node = ROOT THEN NoRecord
    ELSE IF key \in DOMAIN field_map(tree.map[class_node].record)
    THEN field_map(tree.map[class_node].record)[key]
    ELSE resolve_field_node(tree, tree.map[class_node].parent, key)

\* DependencyTree.resolve_field: the field, None, or the exception of the
\* "illegal program state" check.
resolve_field(tree, class_name, field_name, is_static) ==
    IF class_name \in DOMAIN tree.map
    THEN LET app == IF is_static THEN "static" ELSE "instance"
             field == resolve_field_node(tree, class_name, MemberKey(app, field_name))
         IN  IF field /= NoRecord /\ field.applicability /= app THEN Raised ELSE field
    ELSE NoRecord

\* DependencyTree.__resolve_method
RECURSIVE resolve_method_node(_, _, _)
resolve_method_node(tree, class_node, key) ==
    IF class_node = ROOT THEN NoRecord
    ELSE IF key \in DOMAIN method_map(tree.map[class_node].record)
    THEN method_map(tree.map[class_node].record)[key]
    ELSE resolve_method_node(tree, tree.map[class_node].parent, key)

\* DependencyTree.resolve_method
resolve_method(tree, class_name, method_name, is_static) ==
    IF class_name \in DOMAIN tree.map
    THEN LET app == IF is_static THEN "static" ELSE "instance"
             method == resolve_method_node(tree, class_name, MemberKey(app, method_name))
         IN  IF method /= NoRecord /\ method.applicability /= app THEN Raised ELSE method
    ELSE NoRecord

\* The tree the two variables hold.
TheTree == Tree(CLASS_NAME_TO_NODE, DEPENDENCY_TREE_ROOT)


(***************************************************************************)
(* Expressions and statements: decaf_ast.py, the ExpressionRecord and      *)
(* StatementRecord subclasses the model uses.  The class an expression is  *)
(* written in (its containing_class, Scope.current.class_name when the     *)
(* parser built it) is passed along as cc.                                 *)
(***************************************************************************)
Constant(type) == [tag |-> "Constant", type |-> type]
ThisExpression == [tag |-> "This"]
SuperExpression == [tag |-> "Super"]
ClassReference(class_name) == [tag |-> "ClassReference", class_name |-> class_name]
\* VarExpressionRecord.__init__: the type is the type of the variable.
VarExpression(variable) == [tag |-> "Var", type |-> variable.type, variable |-> variable]
FieldAccess(base, name) == [tag |-> "FieldAccess", base |-> base, name |-> name]
MethodCall(base, name, arguments) ==
    [tag |-> "MethodCall", base |-> base, name |-> name, arguments |-> arguments]
NewObject(class_name, arguments) ==
    [tag |-> "NewObject", class_name |-> class_name, arguments |-> arguments]
Assign(left, right) == [tag |-> "Assign", left |-> left, right |-> right]
Binary(operator, left, right) ==
    [tag |-> "Binary", operator |-> operator, left |-> left, right |-> right]
\* p_expr_unary_minus builds the operator "uminus", p_expr_not the operator "neg".
Unary(operator, expr) == [tag |-> "Unary", operator |-> operator, expr |-> expr]

ReturnStatement(return_value) == [tag |-> "Return", return_value |-> return_value]
ExprStatement(expr) == [tag |-> "Expr", expr |-> expr]
VariableDeclarationStatement(variables) ==
    [tag |-> "VariableDeclaration", variables |-> variables]
SkipStatement == [tag |-> "Skip"]
BlockStatement(stmt_seq) == [tag |-> "Block", stmt_seq |-> stmt_seq]
\* else_stmt is NoRecord for an if without else.
IfStatement(if_expr, then_stmt, else_stmt) ==
    [tag |-> "If", if_expr |-> if_expr, then_stmt |-> then_stmt, else_stmt |-> else_stmt]
WhileStatement(while_condition, while_body) ==
    [tag |-> "While", while_condition |-> while_condition, while_body |-> while_body]
ForStatement(init_expr, loop_condition, update_expr, loop_body) ==
    [tag |-> "For", init_expr |-> init_expr, loop_condition |-> loop_condition,
     update_expr |-> update_expr, loop_body |-> loop_body]
BreakStatement == [tag |-> "Break"]
ContinueStatement == [tag |-> "Continue"]

\* A private member used from another class: never.
PrivateOutsideClass_ignored(member, cc) == FALSE

\* The visibility test of the three compute_type methods: the member is private
\* and its containing_class is not the class the expression is written in.
PrivateOutsideClass(member, cc) ==
    member.visibility = "private" /\ member.containing_class /= cc

RECURSIVE resolve_type(_, _, _)

\* The loop over zip(parameters, arguments): every argument has a type that
\* is_subtype accepts for its parameter.
ArgumentsAccepted(tree, cc, parameters, arguments) ==
    \A i \in DOMAIN parameters :
        LET a_type == resolve_type(tree, cc, arguments[i])
        IN  /\ a_type /= Raised
            /\ is_subtype(tree, a_type, parameters[i].type) = True

\* SuperExpressionRecord.compute_type
SuperType(tree, cc) ==
    LET rec == get_class_record(tree, cc)
    IN  IF rec = NoRecord THEN Raised
        ELSE IF rec.super_class_name = None THEN Raised
        ELSE IF get_class_record(tree, rec.super_class_name) = NoRecord THEN Raised
        ELSE UserTypeRecord(get_class_record(tree, rec.super_class_name).name)

\* ClassReferenceExpressionRecord.compute_type
ClassReferenceType(tree, class_name) ==
    IF get_class_record(tree, class_name) = NoRecord THEN Raised
    ELSE ClassLiteralTypeRecord(class_name)

\* FieldAccessExpressionRecord.compute_type, given the type of the base.
FieldAccessType(tree, cc, base_type, name) ==
    LET field == IF base_type.kind = "user"
                 THEN resolve_field(tree, base_type.type, name, FALSE)
                 ELSE IF base_type.kind = "class-literal"
                 THEN resolve_field(tree, base_type.type, name, TRUE)
                 ELSE NoRecord
    IN  IF field = NoRecord \/ field = Raised THEN Raised
        ELSE IF PrivateOutsideClass(field, cc) THEN Raised
        ELSE field.type

\* MethodCallExpressionRecord.compute_type, given the type of the base.
MethodCallType(tree, cc, base_type, name, arguments) ==
    LET method == IF base_type.kind = "user"
                  THEN resolve_method(tree, base_type.type, name, FALSE)
                  ELSE IF base_type.kind = "class-literal"
                  THEN resolve_method(tree, base_type.type, name, TRUE)
                  ELSE NoRecord
    IN  IF method = NoRecord \/ method = Raised THEN Raised
        ELSE IF PrivateOutsideClass(method, cc) THEN Raised
        ELSE IF Len(method.parameters) /= Len(arguments) THEN Raised
        ELSE IF ~ArgumentsAccepted(tree, cc, method.parameters, arguments) THEN Raised
        ELSE method.return_type

\* NewObjectExpressionRecord.compute_type
NewObjectType(tree, cc, class_name, arguments) ==
    LET rec == get_class_record(tree, class_name)
    IN  IF rec = NoRecord THEN Raised
        ELSE IF Len(rec.constructors) < 1 THEN Raised
        ELSE LET cons == rec.constructors[1]
             IN  IF PrivateOutsideClass(cons, cc) THEN Raised
                 ELSE IF Len(cons.parameters) /= Len(arguments) THEN Raised
                 ELSE IF ~ArgumentsAccepted(tree, cc, cons.parameters, arguments) THEN Raised
                 ELSE UserTypeRecord(class_name)

\* AssignExpressionRecord.compute_type, given the types of both sides.
AssignType(tree, left_type, right_type) ==
    IF is_subtype(tree, right_type, left_type) = True THEN right_type ELSE Raised

\* UnaryExpressionRecord.compute_type, given the type of the operand.
UnaryType(operator, e_type) ==
    IF operator = "uminus"
    THEN IF e_type \in {INT, FLOAT} THEN e_type ELSE Raised
    ELSE IF e_type = BOOLEAN_T THEN e_type ELSE Raised

\* BinaryExpressionRecord.compute_type, given the types of both sides.
BinaryType(tree, operator, left_type, right_type) ==
    LET allowed_num_types == {INT, FLOAT}
    IN  IF operator \in {"add", "sub", "mul", "div"}
        THEN IF left_type \in allowed_num_types /\ right_type \in allowed_num_types
             THEN IF FLOAT \in {left_type, right_type} THEN FLOAT ELSE INT
             ELSE Raised
        ELSE IF operator \in {"and", "or"}
        THEN IF left_type = BOOLEAN_T /\ right_type = BOOLEAN_T THEN BOOLEAN_T ELSE Raised
        ELSE IF operator \in {"lt", "leq", "gt", "geq"}
        THEN IF left_type \in allowed_num_types /\ right_type \in allowed_num_types
             THEN BOOLEAN_T ELSE Raised
        ELSE \* "eq" | "neq": Python's `or` calls the second is_subtype only when the
             \* first returned False, and a KeyError of either call propagates.
             LET lr == is_subtype(tree, left_type, right_type)
             IN  IF lr = True THEN BOOLEAN_T
                 ELSE IF lr /= False THEN Raised
                 ELSE IF is_subtype(tree, right_type, left_type) = True THEN BOOLEAN_T
                 ELSE Raised

\* ExpressionRecord.resolve_type with the compute_type of each subclass: the
\* type of the expression, or Raised when an exception leaves the call.  The
\* memo in self.type is not modelled: an expression is typed in one tree only.
resolve_type(tree, cc, e) ==
    LET t ==
        CASE e.tag = "Constant" -> e.type
          [] e.tag = "Var" -> e.type
          [] e.tag = "This" -> UserTypeRecord(cc)
          [] e.tag = "Super" -> SuperType(tree, cc)
          [] e.tag = "ClassReference" -> ClassReferenceType(tree, e.class_name)
          [] e.tag = "FieldAccess" ->
                LET base_type == resolve_type(tree, cc, e.base)
                IN  IF base_type = Raised THEN Raised
                    ELSE FieldAccessType(tree, cc, base_type, e.name)
          [] e.tag = "MethodCall" ->
                LET base_type == resolve_type(tree, cc, e.base)
                IN  IF base_type = Raised THEN Raised
                    ELSE MethodCallType(tree, cc, base_type, e.name, e.arguments)
          [] e.tag = "NewObject" -> NewObjectType(tree, cc, e.class_name, e.arguments)
          [] e.tag = "Assign" ->
                LET left_type == resolve_type(tree, cc, e.left)
                    right_type == resolve_type(tree, cc, e.right)
                IN  IF left_type = Raised \/ right_type = Raised THEN Raised
                    ELSE AssignType(tree, left_type, right_type)
          [] e.tag = "Binary" ->
                LET left_type == resolve_type(tree, cc, e.left)
                    right_type == resolve_type(tree, cc, e.right)
                IN  IF left_type = Raised \/ right_type = Raised THEN Raised
                    ELSE BinaryType(tree, e.operator, left_type, right_type)
          [] e.tag = "Unary" ->
                LET e_type == resolve_type(tree, cc, e.expr)
                IN  IF e_type = Raised THEN Raised ELSE UnaryType(e.operator, e_type)
    IN  IF t = ERROR THEN Raised ELSE t

\* The context type_check passes to a body.
Context(method_type, method_return_type) ==
    [method_type |-> method_type, method_return_type |-> method_return_type]

\* A return statement that is accepted whatever the member is.
ReturnTypeCorrect_any_member(tree, cc, context, return_value) ==
    IF return_value = NoRecord
    THEN context.method_type = "constructor" \/ context.method_return_type = VOID
    ELSE /\ context.method_type /= "constructor"
         /\ context.method_return_type /= VOID
         /\ resolve_type(tree, cc, return_value) /= Raised
         /\ is_subtype(tree, resolve_type(tree, cc, return_value),
                       context.method_return_type) = True

\* ReturnStatementRecord.compute_type_correct: TRUE when it returns True, FALSE
\* when it raises.
ReturnTypeCorrect(tree, cc, context, return_value) ==
    IF context.method_type = "constructor" THEN FALSE
    ELSE IF context.method_return_type = NoRecord THEN FALSE
    ELSE IF return_value = NoRecord
    THEN context.method_return_type = VOID
    ELSE IF context.method_return_type = VOID THEN FALSE
    ELSE /\ resolve_type(tree, cc, return_value) /= Raised
         /\ is_subtype(tree, resolve_type(tree, cc, return_value),
                       context.method_return_type) = True

\* StatementRecord.resolve_type_correct with the compute_type_correct of each
\* subclass: TRUE when the statement is accepted, FALSE when it raises (or
\* returns False, which type_check turns into a raise).
RECURSIVE resolve_type_correct(_, _, _, _)
resolve_type_correct(tree, cc, context, stmt) ==
    CASE stmt.tag = "Return" -> ReturnTypeCorrect(tree, cc, context, stmt.return_value)
      [] stmt.tag = "Expr" -> resolve_type(tree, cc, stmt.expr) /= Raised
      [] stmt.tag = "VariableDeclaration" -> TRUE
      [] stmt.tag = "Skip" -> TRUE
      [] stmt.tag = "Block" ->
            \A i \in DOMAIN stmt.stmt_seq :
                resolve_type_correct(tree, cc, context, stmt.stmt_seq[i])
      [] stmt.tag = "If" ->
            /\ resolve_type(tree, cc, stmt.if_expr) = BOOLEAN_T
            /\ resolve_type_correct(tree, cc, context, stmt.then_stmt)
            /\ \/ stmt.else_stmt = NoRecord
               \/ resolve_type_correct(tree, cc, context, stmt.else_stmt)
      [] stmt.tag = "While" ->
            /\ resolve_type(tree, cc, stmt.while_condition) = BOOLEAN_T
            /\ resolve_type_correct(tree, cc, context, stmt.while_body)
      [] stmt.tag = "For" ->
            \* an omitted part is None, and None has no resolve_type
            /\ stmt.loop_condition /= NoRecord
            /\ resolve_type(tree, cc, stmt.loop_condition) = BOOLEAN_T
            /\ stmt.init_expr /= NoRecord
            /\ resolve_type(tree, cc, stmt.init_expr) /= Raised
            /\ stmt.update_expr /= NoRecord
            /\ resolve_type(tree, cc, stmt.update_expr) /= Raised
            /\ resolve_type_correct(tree, cc, context, stmt.loop_body)
      [] stmt.tag \in {"Break", "Continue"} -> TRUE

\* The class a declared type names is not looked up.
DeclaredTypeKnown_always(tree, type) == TRUE

\* type_check: a declared type is built in, or names a class of the tree.
DeclaredTypeKnown(tree, type) ==
    type.kind = "builtin" \/ get_class_record(tree, type.type) /= NoRecord

\* type_check, the body of the loop after register_class: TRUE when the class
\* passes, FALSE when an exception is raised.
TypeCheckMembers(tree, class_rec) ==
    /\ \A i \in DOMAIN class_rec.fields : DeclaredTypeKnown(tree, class_rec.fields[i].type)
    /\ \A i \in DOMAIN class_rec.constructors :
          LET cons_rec == class_rec.constructors[i]
          IN  /\ \A j \in DOMAIN cons_rec.parameters :
                    DeclaredTypeKnown(tree, cons_rec.parameters[j].type)
              /\ resolve_type_correct(tree, class_rec.name,
                                      Context("constructor", NoRecord), cons_rec.body)
    /\ \A i \in DOMAIN class_rec.methods :
          LET method_rec == class_rec.methods[i]
          IN  /\ DeclaredTypeKnown(tree, method_rec.return_type)
              /\ \A j \in DOMAIN method_rec.parameters :
                    DeclaredTypeKnown(tree, method_rec.parameters[j].type)
              /\ resolve_type_correct(tree, class_rec.name,
                                      Context("method", method_rec.return_type),
                                      method_rec.body)

(***************************************************************************)
(* What the type checker stored in a checked expression (self.type,        *)
(* self.field, self.method) is recomputed in the final tree, where it is   *)
(* the same, because the ancestors of a registered class never change.     *)
(***************************************************************************)
\* The member a checked field access or method call holds.
MemberIn(tree, e, base_type) ==
    IF e.tag = "FieldAccess"
    THEN resolve_field(tree, base_type.type, e.name, base_type.kind = "class-literal")
    ELSE resolve_method(tree, base_type.type, e.name, base_type.kind = "class-literal")

MemberOf(tree, cc, e) == MemberIn(tree, e, resolve_type(tree, cc, e.base))

(***************************************************************************)
(* The layout pass: decaf_codegen.py, resolve_sizes_and_offsets.           *)
(***************************************************************************)
\* Counter.next() in decaf_util.py: the value returned and the counter after.
CounterNext(curr) == [out |-> curr, curr |-> curr + 1]

RECURSIVE LayoutFields(_, _, _, _, _)

\* The static counter is advanced for instance fields too.
LayoutFields_one_counter(fields, i, static_curr, instance_curr, offsets) ==
    [offsets |-> [j \in DOMAIN fields |-> static_curr + j - 1],
     static_curr |-> static_curr + Len(fields),
     instance_curr |-> instance_curr
                         + Cardinality({j \in DOMAIN fields :
                                           fields[j].applicability /= "static"})]

\* A static field takes a slot of the instance too.
LayoutFields_static_takes_slot(fields, i, static_curr, instance_curr, offsets) ==
    [offsets |->
        [j \in DOMAIN fields |->
            IF fields[j].applicability = "static"
            THEN static_curr + Cardinality({h \in 1..(j - 1) :
                                              fields[h].applicability = "static"})
            ELSE instance_curr + j - 1],
     static_curr |-> static_curr
                       + Cardinality({j \in DOMAIN fields :
                                         fields[j].applicability = "static"}),
     instance_curr |-> instance_curr + Len(fields)]

\* An instance field gets the value of the counter after the increment.
LayoutFields_offset_after_increment(fields, i, static_curr, instance_curr, offsets) ==
    [offsets |->
        [j \in DOMAIN fields |->
            IF fields[j].applicability = "static"
            THEN static_curr + Cardinality({h \in 1..(j - 1) :
                                              fields[h].applicability = "static"})
            ELSE instance_curr + Cardinality({h \in 1..j :
                                                fields[h].applicability /= "static"})],
     static_curr |-> static_curr
                       + Cardinality({j \in DOMAIN fields :
                                         fields[j].applicability = "static"}),
     instance_curr |-> instance_curr
                         + Cardinality({j \in DOMAIN fields :
                                           fields[j].applicability /= "static"})]

\* The loop over class_rec.fields from field i on: the offsets assigned and
\* the two counters after the loop.
LayoutFields(fields, i, static_curr, instance_curr, offsets) ==
    IF i > Len(fields)
    THEN [offsets |-> offsets, static_curr |-> static_curr,
          instance_curr |-> instance_curr]
    ELSE IF fields[i].applicability = "static"
    THEN LET n == CounterNext(static_curr)
         IN  LayoutFields(fields, i + 1, n.curr, instance_curr,
                          Append(offsets, n.out))
    ELSE LET n == CounterNext(instance_curr)
         IN  LayoutFields(fields, i + 1, static_curr, n.curr,
                          Append(offsets, n.out))

\* The index in the class list of the record the tree holds for a name (the
\* tree holds the records of the list).
IndexOfClass(class_list, name) ==
    CHOOSE i \in DOMAIN class_list : class_list[i].name = name

(***************************************************************************)
(* Code generation: the generators of decaf_absmc.py and the generate_code *)
(* methods of decaf_ast.py.  A line of code is the string the code builds. *)
(* The nested lists generate_code returns are kept as one flat sequence,   *)
(* in the order print_code visits them.  The state of the generators and   *)
(* the value_reg of the variables is threaded through as the record g:     *)
(*   temp_gen   GlobalTemporaryRegisterGenerator.temp_gen (Counter: start, *)
(*              curr),                                                     *)
(*   label_gen  Counter.curr of LabelGenerator.gen,                        *)
(*   value_reg  VariableRecord.value_reg of the variables that have one,   *)
(*   raised     an exception has left generate_code,                       *)
(*   sites      the call sites, if statements and members generated so     *)
(*              far, recorded for the claims.                              *)
(* The types and members an expression holds (self.type, self.field,       *)
(* self.method, self.constructor) were stored by the type checker; they    *)
(* are recomputed here in the final tree, where they are the same, because *)
(* the ancestors of a registered class never change.                       *)
(***************************************************************************)
NoStart == -1       \* Python's None where Counter.reset expects a new start

\* RegisterGenerator.next: the name f"{prefix}{i}".
RegisterName(prefix, i) == prefix \o ToString(i)

\* Counter.reset of decaf_util.py, on a counter [start, curr].
Counter_reset(counter, new_start) ==
    IF new_start /= NoStart
    THEN [start |-> new_start, curr |-> new_start]
    ELSE [counter EXCEPT !.curr = counter.start]

\* GlobalTemporaryRegisterGenerator.next
NextTemporary(g) ==
    [reg |-> RegisterName("t", g.temp_gen.curr),
     g |-> [g EXCEPT !.temp_gen.curr = @ + 1]]

\* The generator hands out its label without advancing.
NextLabel_same_label(g) == [label |-> RegisterName("L", g.label_gen), g |-> g]

\* LabelGenerator.next
NextLabel(g) ==
    [label |-> RegisterName("L", g.label_gen), g |-> [g EXCEPT !.label_gen = @ + 1]]

\* The state after a raise.
Raise(g) == [g EXCEPT !.raised = TRUE]

\* What generate_code of an expression leaves: its code, the value_reg it set
\* (None when it set none) and the state.
Result(code, reg, g) == [code |-> code, reg |-> reg, g |-> g]

\* ExpressionRecord.get_value_register after generate_code: raises on None.
Used(r) == IF r.reg = None THEN Raise(r.g) ELSE r.g

\* The literal the model writes for a constant of each type, as
\* generate_code formats it: {self.value} and the operand of move_immed.
ConstantValue(type) ==
    CASE type = INT -> [text |-> "7", operand |-> "7", op |-> "move_immed_i"]
      [] type = FLOAT -> [text |-> "1.5", operand |-> "1.5", op |-> "move_immed_f"]
      [] type = BOOLEAN_T -> [text |-> "True", operand |-> "1", op |-> "move_immed_i"]
      [] type = NULL -> [text |-> "null", operand |-> "0", op |-> "move_immed_i"]
      [] OTHER -> [text |-> "", operand |-> "", op |-> ""]

\* generate_code of the constant records; the string constant raises.
ConstantCode(e, g) ==
    IF e.type = STRING_T THEN Result(<<>>, None, Raise(g))
    ELSE LET t == NextTemporary(g)
             v == ConstantValue(e.type)
         IN  Result(<<v.op \o " " \o t.reg \o ", " \o v.operand,
                      "# " \o t.reg \o " = " \o v.text>>, t.reg, t.g)

\* The variable a value_reg belongs to: the class it is declared in and its id.
VariableKey(cc, variable) == <<cc, variable.id>>

\* VariableRecord.get_value_register: a variable without a register takes the
\* next temporary.
VariableRegister(cc, variable, g) ==
    LET key == VariableKey(cc, variable)
    IN  IF key \in DOMAIN g.value_reg THEN [reg |-> g.value_reg[key], g |-> g]
        ELSE LET t == NextTemporary(g)
             IN  [reg |-> t.reg,
                  g |-> [t.g EXCEPT !.value_reg =
                            [x \in DOMAIN @ \cup {key} |->
                                IF x = key THEN t.reg ELSE @[x]]]]

\* VarExpressionRecord.generate_code
VarCode(cc, e, g) ==
    LET v == VariableRegister(cc, e.variable, g)
    IN  Result(<<"# ref " \o v.reg \o " for Variable(" \o ToString(e.variable.id)
                   \o ") aka " \o e.variable.name>>, v.reg, v.g)

\* ThisExpressionRecord.generate_code and SuperExpressionRecord.generate_code
ThisCode(self_t, g) ==
    IF self_t = None THEN Result(<<>>, None, Raise(g))
    ELSE LET t == NextTemporary(g)
         IN  Result(<<"move " \o t.reg \o ", " \o self_t,
                      "# " \o t.reg \o " = " \o self_t>>, t.reg, t.g)

\* MethodRecord.id, ConstructorRecord.id: the records are created in the order
\* of the program, each kind numbered from 1 by its own id_gen.
RECURSIVE MembersBefore(_, _, _)
MembersBefore(class_list, i, kind) ==
    IF i <= 1 THEN 0
    ELSE MembersBefore(class_list, i - 1, kind)
           + (IF kind = "method" THEN Len(class_list[i - 1].methods)
              ELSE Len(class_list[i - 1].constructors))

\* MethodRecord.get_label of the method a call resolved to.
MethodLabel(class_list, method) ==
    LET i == IndexOfClass(class_list, method.containing_class)
        j == CHOOSE j \in DOMAIN class_list[i].methods :
                 MemberKey(class_list[i].methods[j].applicability,
                           class_list[i].methods[j].name)
                   = MemberKey(method.applicability, method.name)
    IN  "M_" \o method.name \o "_" \o ToString(MembersBefore(class_list, i, "method") + j)

\* ConstructorRecord.get_label of the constructor of a class (it has at most one).
ConstructorLabel(class_list, class_name) ==
    "C_" \o ToString(MembersBefore(class_list, IndexOfClass(class_list, class_name),
                                   "constructor") + 1)

\* FieldRecord.offset of the field an access resolved to, as the layout pass set it.
FieldOffsetOf(env, field) ==
    LET i == IndexOfClass(env.class_list, field.containing_class)
        j == CHOOSE j \in DOMAIN env.class_list[i].fields :
                 MemberKey(env.class_list[i].fields[j].applicability,
                           env.class_list[i].fields[j].name)
                   = MemberKey(field.applicability, field.name)
    IN  env.fieldOffset[<<i, j>>]

\* save a0 .. a(a_needed-1), then t0 .. t(seed-1): saved_regs of a call site.
SavedRegisters(a_needed, seed) ==
    [i \in 1..a_needed |-> RegisterName("a", i - 1)]
      \o [i \in 1..seed |-> RegisterName("t", i - 1)]

Saves(saved_regs) == [i \in DOMAIN saved_regs |-> "save " \o saved_regs[i]]

\* The registers restored in the order they were saved in.
Restores_in_save_order(saved_regs) ==
    [i \in DOMAIN saved_regs |-> "restore " \o saved_regs[i]]

\* for reg in reversed(saved_regs): restore reg
Restores(saved_regs) ==
    [i \in DOMAIN saved_regs |-> "restore " \o saved_regs[Len(saved_regs) + 1 - i]]

\* The temporary generator keeps its value after a call.
AfterCall_keeps_counter(g, seed) == g

\* GlobalTemporaryRegisterGenerator.reset(seed) after the call instruction.
AfterCall(g, seed) == [g EXCEPT !.temp_gen = Counter_reset(@, seed)]

\* for a in self.arguments: move pass_a, arg_t (the argument registers from first)
RECURSIVE ArgumentMoves(_, _, _)
ArgumentMoves(regs, i, first) ==
    IF i > Len(regs) THEN <<>>
    ELSE LET pass_a == RegisterName("a", first + i - 1)
         IN  <<"move " \o pass_a \o ", " \o regs[i], "# " \o pass_a \o " = " \o regs[i]>>
               \o ArgumentMoves(regs, i + 1, first)

\* What the type checker stored in an expression.
TypeOf(env, ctx, e) == resolve_type(env.tree, ctx.cc, e)

RECURSIVE generate_code(_, _, _, _)
RECURSIVE generate_arguments(_, _, _, _, _, _)

\* What generate_code of a statement, a member or a class leaves: the code of
\* the first part followed by the code of the rest, and the state after both.
Join(first, rest) == [code |-> first.code \o rest.code, g |-> rest.g]

\* One turn of the loop over zip(parameters, self.arguments): the code of the
\* argument a and its cast to float, then the arguments after it.
ArgumentsJoin(a, cast, rest) ==
    [code |-> a.code
                \o (IF cast THEN <<"itof " \o a.reg \o ", " \o a.reg>> ELSE <<>>)
                \o rest.code,
     regs |-> <<a.reg>> \o rest.regs,
     g |-> rest.g]

ArgumentsFrom(env, ctx, parameters, arguments, i, a, cast) ==
    ArgumentsJoin(a, cast,
                  generate_arguments(env, ctx, parameters, arguments, i + 1,
                                     IF cast THEN Used(a) ELSE a.g))

\* The loop over zip(parameters, self.arguments) of a call site, from argument
\* i on: the code of each argument and its cast to float, and the value_reg
\* each argument was left with.
generate_arguments(env, ctx, parameters, arguments, i, g) ==
    IF i > Len(arguments) \/ i > Len(parameters)
    THEN [code |-> <<>>, regs |-> <<>>, g |-> g]
    ELSE ArgumentsFrom(env, ctx, parameters, arguments, i,
                       generate_code(env, ctx, arguments[i], g),
                       parameters[i].type = FLOAT /\ TypeOf(env, ctx, arguments[i]) = INT)

\* The copy loop of a call site uses get_value_register of every argument.
AllUsed(regs, g) == IF \E i \in DOMAIN regs : regs[i] = None THEN Raise(g) ELSE g

\* FieldAccessExpressionRecord.generate_code, once out_t and offset_t are
\* taken: offset is field.offset, base what generate_code of the base left
\* (the base of a static field generates nothing and is not asked).
FieldAccessEmit(out_t, offset_t, offset, class_literal, base) ==
    LET out == <<"move_immed_i " \o offset_t.reg \o ", " \o offset,
                 "# " \o offset_t.reg \o " = " \o offset>>
    IN  IF class_literal
        THEN Result(out \o <<"hload " \o out_t.reg \o ", sap, " \o offset_t.reg>>,
                    out_t.reg, offset_t.g)
        ELSE Result(out \o base.code
                        \o <<"hload " \o out_t.reg \o ", " \o base.reg \o ", "
                               \o offset_t.reg>>,
                    out_t.reg, Used(base))

\* FieldAccessExpressionRecord.generate_code
FieldAccessCode(env, ctx, e, g) ==
    LET out_t == NextTemporary(g)
        offset_t == NextTemporary(out_t.g)
    IN  FieldAccessEmit(out_t, offset_t,
                        ToString(FieldOffsetOf(env, MemberOf(env.tree, ctx.cc, e))),
                        TypeOf(env, ctx, e.base).kind = "class-literal",
                        generate_code(env, ctx, e.base, offset_t.g))

\* MethodCallExpressionRecord.generate_code, from the saves on: args is what
\* the loop over the arguments left, base what generate_code of the base left
\* (asked for an instance method only), method_l is self.method.get_label().
MethodCallEmit(e, g, method, args, base, method_l) ==
    LET seed == g.temp_gen.curr
        instance == method.applicability = "instance"
        a_needed == Len(method.parameters) + (IF instance THEN 1 ELSE 0)
        saved_regs == SavedRegisters(a_needed, seed)
        base_code == IF instance
                     THEN base.code \o <<"move a0, " \o base.reg, "# a0 = " \o base.reg>>
                     ELSE <<>>
        moved == AllUsed(args.regs, IF instance THEN Used(base) ELSE args.g)
        out_t == NextTemporary(AfterCall(moved, seed))
        returned == IF method.return_type = VOID
                    THEN <<"move_immed_i " \o out_t.reg \o ", 0", "# " \o out_t.reg \o " = 0">>
                    ELSE <<"move " \o out_t.reg \o ", a0", "# " \o out_t.reg \o " = a0">>
        code == args.code \o Saves(saved_regs) \o base_code
                  \o ArgumentMoves(args.regs, 1, IF instance THEN 1 ELSE 0)
                  \o <<"call " \o method_l>>
                  \o returned \o Restores(saved_regs)
        site == [kind |-> "call", before |-> g.temp_gen.curr, seed |-> seed,
                 after |-> out_t.g.temp_gen.curr, a_needed |-> a_needed,
                 parameters |-> Len(method.parameters), instance |-> instance,
                 arguments |-> Len(e.arguments), arguments_code |-> args.code,
                 argument_regs |-> args.regs, value_reg |-> out_t.g.value_reg,
                 out_t |-> out_t.reg, code |-> code]
    IN  Result(code, out_t.reg, [out_t.g EXCEPT !.sites = Append(@, site)])

MethodCallBase(env, ctx, e, g, method, args) ==
    MethodCallEmit(e, g, method, args,
                   IF method.applicability = "instance"
                   THEN generate_code(env, ctx, e.base, args.g)
                   ELSE Result(<<>>, None, args.g),
                   MethodLabel(env.class_list, method))

MethodCallArguments(env, ctx, e, g, method) ==
    MethodCallBase(env, ctx, e, g, method,
                   generate_arguments(env, ctx, method.parameters, e.arguments, 1, g))

\* MethodCallExpressionRecord.generate_code
MethodCallCode(env, ctx, e, g) ==
    MethodCallArguments(env, ctx, e, g, MemberOf(env.tree, ctx.cc, e))

\* NewObjectExpressionRecord.generate_code, from the saves on: class_size is the
\* size of the class, constructor_l is self.constructor.get_label().
NewObjectEmit(e, g, out_t, constructor, args, class_size, constructor_l) ==
    LET halloc == <<"halloc " \o out_t.reg \o ", " \o class_size>>
        seed == out_t.g.temp_gen.curr
        a_needed == Len(constructor.parameters) + 1
        saved_regs == SavedRegisters(a_needed, seed)
        moved == AllUsed(args.regs, args.g)
        code == halloc \o args.code \o Saves(saved_regs)
                  \o <<"move a0, " \o out_t.reg, "# a0 = " \o out_t.reg>>
                  \o ArgumentMoves(args.regs, 1, 1)
                  \o <<"call " \o constructor_l>>
                  \o Restores(saved_regs)
        after == AfterCall(moved, seed)
        site == [kind |-> "new", before |-> g.temp_gen.curr, seed |-> seed,
                 after |-> after.temp_gen.curr, a_needed |-> a_needed,
                 arguments |-> Len(e.arguments), arguments_code |-> args.code,
                 argument_regs |-> args.regs, value_reg |-> after.value_reg,
                 out_t |-> out_t.reg, code |-> code]
    IN  Result(code, out_t.reg, [after EXCEPT !.sites = Append(@, site)])

NewObjectArguments(env, ctx, e, g, out_t, constructor) ==
    NewObjectEmit(e, g, out_t, constructor,
                  generate_arguments(env, ctx, constructor.parameters, e.arguments, 1,
                                     out_t.g),
                  ToString(env.size[IndexOfClass(env.class_list, e.class_name)]),
                  ConstructorLabel(env.class_list, e.class_name))

\* NewObjectExpressionRecord.generate_code
NewObjectCode(env, ctx, e, g) ==
    NewObjectArguments(env, ctx, e, g, NextTemporary(g),
                       get_class_record(env.tree, e.class_name).constructors[1])

\* AssignExpressionRecord.generate_code: the code of the right side, the move
\* into out_t and the cast of an int assigned to a float.
AssignMoves(right, cast, out_t) ==
    right.code
      \o <<"move " \o out_t.reg \o ", " \o right.reg,
           "# " \o out_t.reg \o " = " \o right.reg \o " (" \o out_t.reg
             \o " is the result of the assignment)">>
      \o (IF cast THEN <<"itof " \o right.reg \o ", " \o right.reg,
                         "# " \o right.reg \o " = (float) " \o right.reg>>
          ELSE <<>>)

\* AssignExpressionRecord.generate_code with a field on the left: offset is
\* field.offset, base_type the type of the base of the field access, base
\* what generate_code of that base left (a class reference is not asked).
AssignFieldEmit(e, right, cast, out_t, offset_t, offset, base_type, base) ==
    LET stored == AssignMoves(right, cast, out_t)
                    \o <<"move_immed_i " \o offset_t.reg \o ", " \o offset,
                         "# " \o offset_t.reg \o " = " \o offset>>
    IN  IF base_type.kind = "class-literal"
        THEN Result(stored \o <<"hstore sap, " \o offset_t.reg \o ", " \o right.reg,
                                "# " \o base_type.type \o "." \o e.left.name
                                  \o " = " \o right.reg>>,
                    out_t.reg, offset_t.g)
        ELSE Result(stored \o base.code
                      \o <<"hstore " \o base.reg \o ", " \o offset_t.reg
                             \o ", " \o right.reg,
                           "# " \o base.reg \o "." \o e.left.name
                             \o " = " \o right.reg>>,
                    out_t.reg, Used(base))

\* AssignExpressionRecord.generate_code with anything else on the left.
AssignVariableEmit(right, cast, out_t, left) ==
    Result(AssignMoves(right, cast, out_t) \o left.code
             \o <<"move " \o left.reg \o ", " \o right.reg,
                  "# " \o left.reg \o " = " \o right.reg>>,
           out_t.reg, Used(left))

AssignLeft(env, ctx, e, right, cast) ==
    LET out_t == NextTemporary(Used(right))
        offset_t == NextTemporary(out_t.g)
    IN  IF e.left.tag = "FieldAccess"
        THEN AssignFieldEmit(e, right, cast, out_t, offset_t,
                             ToString(FieldOffsetOf(env, MemberOf(env.tree, ctx.cc, e.left))),
                             TypeOf(env, ctx, e.left.base),
                             generate_code(env, ctx, e.left.base, offset_t.g))
        ELSE AssignVariableEmit(right, cast, out_t,
                                generate_code(env, ctx, e.left, out_t.g))

\* AssignExpressionRecord.generate_code
AssignCode(env, ctx, e, g) ==
    AssignLeft(env, ctx, e, generate_code(env, ctx, e.right, g),
               TypeOf(env, ctx, e.left) = FLOAT /\ TypeOf(env, ctx, e.right) = INT)

\* The cast of an int operand of a float operation.
CastToFloat(type, reg) ==
    IF type = INT
    THEN <<"itof " \o reg \o ", " \o reg, "# " \o reg \o " = (float) " \o reg>>
    ELSE <<>>

\* BinaryExpressionRecord.generate_code, once both operands are generated and
\* out_t is taken: type is self.type, swap is is_subtype(right type, left
\* type), asked by "eq" and "neq" only.  Two adjacent string literals of the
\* source are one string: the move_immed_i of zero_t is part of a comment.
BinaryEmit(e, left, right, out_t, left_type, right_type, type, swap) ==
    LET left_t == left.reg
        right_t == right.reg
        o == out_t.reg
        out == left.code \o right.code
        Operation(prefix) ==
            <<prefix \o e.operator \o " " \o o \o ", " \o left_t \o ", " \o right_t,
              "# " \o o \o " = " \o left_t \o " " \o e.operator \o " " \o right_t>>
    IN  IF e.operator \in {"add", "sub", "mul", "div"}
        THEN IF type = INT
             THEN Result(out \o Operation("i"), o, out_t.g)
             ELSE Result(out \o CastToFloat(left_type, left_t)
                             \o CastToFloat(right_type, right_t) \o Operation("f"),
                         o, out_t.g)
        ELSE IF e.operator = "and"
        THEN Result(out \o <<"imul " \o o \o ", " \o left_t \o ", " \o right_t,
                             "# " \o o \o " = " \o left_t \o " AND " \o right_t>>,
                    o, out_t.g)
        ELSE IF e.operator = "or"
        THEN LET zero_t == NextTemporary(out_t.g)
             IN  Result(out \o <<"iadd " \o o \o ", " \o left_t \o ", " \o right_t,
                                 "# " \o o \o " = " \o left_t \o " + " \o right_t
                                   \o "move_immed_i " \o zero_t.reg \o ", 0",
                                 "# " \o zero_t.reg \o " = 0",
                                 "igt " \o o \o ", " \o o \o ", " \o zero_t.reg,
                                 "# " \o o \o " = " \o left_t \o " OR " \o right_t>>,
                        o, zero_t.g)
        ELSE IF e.operator \in {"lt", "leq", "gt", "geq"}
        THEN IF left_type = right_type
             THEN Result(out \o Operation(IF left_type = INT THEN "i" ELSE "f"), o, out_t.g)
             ELSE Result(out \o CastToFloat(left_type, left_t)
                             \o CastToFloat(right_type, right_t) \o Operation("f"),
                         o, out_t.g)
        ELSE \* "eq" | "neq"
             LET a_t == IF swap = True THEN right_t ELSE left_t
                 b_t == IF swap = True THEN left_t ELSE right_t
                 a_type == IF swap = True THEN right_type ELSE left_type
                 b_type == IF swap = True THEN left_type ELSE right_type
                 less_comp_t == NextTemporary(IF swap \in {True, False}
                                              THEN out_t.g ELSE Raise(out_t.g))
                 more_comp_t == NextTemporary(less_comp_t.g)
                 Compare(prefix) ==
                     <<prefix \o "lt " \o less_comp_t.reg \o ", " \o a_t \o ", " \o b_t,
                       "# " \o less_comp_t.reg \o " = " \o a_t \o " < " \o b_t,
                       prefix \o "gt " \o more_comp_t.reg \o ", " \o a_t \o ", " \o b_t,
                       "# " \o more_comp_t.reg \o " = " \o a_t \o " > " \o b_t>>
                 compared == IF b_type = FLOAT
                             THEN CastToFloat(a_type, a_t) \o Compare("f")
                             ELSE Compare("i")
                 zero_t == NextTemporary(more_comp_t.g)
                 differ == <<"iadd " \o o \o ", " \o less_comp_t.reg \o ", " \o more_comp_t.reg,
                             "# " \o o \o " = " \o less_comp_t.reg \o " + " \o more_comp_t.reg
                               \o "move_immed_i " \o zero_t.reg \o ", 0",
                             "# " \o zero_t.reg \o " = 0",
                             "igt " \o o \o ", " \o o \o ", " \o zero_t.reg,
                             "# " \o o \o " = " \o less_comp_t.reg \o " OR " \o more_comp_t.reg
                               \o "# " \o o \o " = " \o a_t \o " != " \o b_t>>
             IN  IF e.operator = "neq"
                 THEN Result(out \o compared \o differ, o, zero_t.g)
                 ELSE LET one_t == NextTemporary(zero_t.g)
                      IN  Result(out \o compared \o differ
                                   \o <<"move_immed_i " \o one_t.reg \o ", 1",
                                        "# " \o one_t.reg \o " = 1",
                                        "isub " \o o \o ", " \o one_t.reg \o ", " \o o,
                                        "# " \o o \o " = !" \o o,
                                        "# " \o o \o " = " \o a_t \o " == " \o b_t>>,
                                 o, one_t.g)

\* The record of an operator expression kept for the checks: what the
\* operands left and the code of the whole expression.
OperatorSite(e, operands_code, types, r) ==
    Result(r.code, r.reg,
           [r.g EXCEPT !.sites =
               Append(@, [kind |-> "operator", tag |-> e.tag, operator |-> e.operator,
                          types |-> types, operands_code |-> operands_code,
                          value_reg |-> r.g.value_reg,
                          out_t |-> r.reg, code |-> r.code])])

BinaryTypes(tree, e, left, right, out_t, left_type, right_type, type) ==
    OperatorSite(e, left.code \o right.code, <<left_type, right_type>>,
                 BinaryEmit(e, left, right, out_t, left_type, right_type, type,
                            is_subtype(tree, right_type, left_type)))

BinaryOperands(env, ctx, e, left, right) ==
    BinaryTypes(env.tree, e, left, right,
                NextTemporary(IF left.reg = None \/ right.reg = None
                              THEN Raise(right.g) ELSE right.g),
                TypeOf(env, ctx, e.left), TypeOf(env, ctx, e.right), TypeOf(env, ctx, e))

BinaryRight(env, ctx, e, left) ==
    BinaryOperands(env, ctx, e, left, generate_code(env, ctx, e.right, left.g))

\* BinaryExpressionRecord.generate_code
BinaryCode(env, ctx, e, g) ==
    BinaryRight(env, ctx, e, generate_code(env, ctx, e.left, g))

\* UnaryExpressionRecord.generate_code, once the operand is generated and
\* offset_t is taken.  The operator of a unary minus is "uminus"; the source
\* compares it with "unminus".
UnaryEmit(e, expr, offset_t, expr_type) ==
    LET expr_t == expr.reg
        out_t == NextTemporary(offset_t.g)
        o == out_t.reg
    IN  IF e.operator = "unminus"
        THEN IF expr_type = INT
             THEN Result(expr.code
                           \o <<"move_immed_i " \o offset_t.reg \o ", -1",
                                "# " \o offset_t.reg \o " = -1",
                                "imul " \o o \o ", " \o offset_t.reg \o ", " \o expr_t,
                                "# " \o o \o " = -" \o expr_t>>,
                         o, out_t.g)
             ELSE Result(expr.code
                           \o <<"move_immed_f " \o offset_t.reg \o ", -1.0",
                                "# " \o offset_t.reg \o " = -1.0",
                                "fmul " \o o \o ", " \o offset_t.reg \o ", " \o expr_t,
                                "# " \o o \o " = -" \o expr_t>>,
                         o, out_t.g)
        ELSE Result(expr.code
                      \o <<"move_immed_i " \o offset_t.reg \o ", 1",
                           "# " \o offset_t.reg \o " = 1",
                           "isub " \o o \o ", " \o offset_t.reg \o ", " \o expr_t,
                           "# " \o o \o " = !" \o expr_t>>,
                    o, out_t.g)

UnaryOperand(e, expr, expr_type) ==
    OperatorSite(e, expr.code, <<expr_type>>,
                 UnaryEmit(e, expr, NextTemporary(Used(expr)), expr_type))

\* UnaryExpressionRecord.generate_code
UnaryCode(env, ctx, e, g) ==
    UnaryOperand(e, generate_code(env, ctx, e.expr, g), TypeOf(env, ctx, e.expr))

\* The context generate_code of a body is called with: the class and the
\* member it belongs to (cc, method_return_type, the expected_return_type the
\* type checker stored in its return statements), self_t and, inside a loop,
\* the labels of the loop.
CodeContext(cc, self_t, method_return_type) ==
    [cc |-> cc, self_t |-> self_t, method_return_type |-> method_return_type,
     loop_test_l |-> None, loop_end_l |-> None]

InLoop(ctx, loop_test_l, loop_end_l) ==
    [ctx EXCEPT !.loop_test_l = loop_test_l, !.loop_end_l = loop_end_l]

RECURSIVE generate_block(_, _, _, _, _)

BlockRest(env, ctx, stmt_seq, i, first) ==
    Join(first, generate_block(env, ctx, stmt_seq, i + 1, first.g))

\* BlockStatementRecord.generate_code, from statement i on.
generate_block(env, ctx, stmt_seq, i, g) ==
    IF i > Len(stmt_seq) THEN [code |-> <<>>, g |-> g]
    ELSE BlockRest(env, ctx, stmt_seq, i, generate_code(env, ctx, stmt_seq[i], g))

\* IfStatementRecord.generate_code: the statement the code of the else branch
\* is generated from.
ElseSource(stmt) == stmt.then_stmt

\* IfStatementRecord.generate_code with an else branch, once the condition,
\* the then code and the else code are generated.
IfEmit(ctx, stmt, condition, end_l, then_code, else_code) ==
    LET else_l == NextLabel(else_code.g)
        code == condition.code
                  \o <<"bz " \o condition.reg \o ", " \o else_l.label>>
                  \o then_code.code
                  \o <<"jmp " \o end_l.label, else_l.label \o ":">>
                  \o else_code.code \o <<end_l.label \o ":">>
        site == [kind |-> "if", stmt |-> stmt, ctx |-> ctx,
                 before_then |-> [end_l.g EXCEPT !.sites = <<>>],
                 before_else |-> [then_code.g EXCEPT !.sites = <<>>],
                 condition_code |-> condition.code, condition_t |-> condition.reg,
                 then_code |-> then_code.code, else_code |-> else_code.code,
                 else_l |-> else_l.label, end_l |-> end_l.label, code |-> code]
    IN  [code |-> code, g |-> [else_l.g EXCEPT !.sites = Append(@, site)]]

IfElse(env, ctx, stmt, condition, end_l, then_code) ==
    IF stmt.else_stmt = NoRecord
    THEN [code |-> condition.code
                     \o <<"bz " \o condition.reg \o ", " \o end_l.label>>
                     \o then_code.code \o <<end_l.label \o ":">>,
          g |-> then_code.g]
    ELSE IfEmit(ctx, stmt, condition, end_l, then_code,
                generate_code(env, ctx, ElseSource(stmt), then_code.g))

IfThen(env, ctx, stmt, condition) ==
    LET end_l == NextLabel(Used(condition))
    IN  IfElse(env, ctx, stmt, condition, end_l,
               generate_code(env, ctx, stmt.then_stmt, end_l.g))

\* IfStatementRecord.generate_code
IfCode(env, ctx, stmt, g) ==
    IfThen(env, ctx, stmt, generate_code(env, ctx, stmt.if_expr, g))

\* WhileStatementRecord.generate_code, once the condition and the body are
\* generated.
WhileEmit(condition, loop_test_l, loop_end_l, body) ==
    [code |-> <<loop_test_l.label \o ":">> \o condition.code
                \o <<"bz " \o condition.reg \o ", " \o loop_end_l.label>>
                \o body.code
                \o <<"jmp " \o loop_test_l.label, loop_end_l.label \o ":">>,
     g |-> body.g]

WhileBody(env, ctx, stmt, condition) ==
    LET loop_test_l == NextLabel(Used(condition))
        loop_end_l == NextLabel(loop_test_l.g)
    IN  WhileEmit(condition, loop_test_l, loop_end_l,
                  generate_code(env, InLoop(ctx, loop_test_l.label, loop_end_l.label),
                                     stmt.while_body, loop_end_l.g))

\* WhileStatementRecord.generate_code
WhileCode(env, ctx, stmt, g) ==
    WhileBody(env, ctx, stmt, generate_code(env, ctx, stmt.while_condition, g))

\* ForStatementRecord.generate_code, once its four parts are generated.
ForEmit(init, condition, loop_test_l, loop_end_l, body, update) ==
    LET code == init.code \o <<loop_test_l.label \o ":">> \o condition.code
                  \o <<"bz " \o condition.reg \o ", " \o loop_end_l.label>>
                  \o body.code \o update.code
                  \o <<"jmp " \o loop_test_l.label, loop_end_l.label \o ":">>
        site == [kind |-> "for", loop_test_l |-> loop_test_l.label,
                 loop_end_l |-> loop_end_l.label,
                 body |-> Len(init.code) + Len(condition.code) + 2,
                 body_code |-> body.code, update_code |-> update.code, code |-> code]
    IN  [code |-> code, g |-> [update.g EXCEPT !.sites = Append(@, site)]]

ForUpdate(env, ctx, stmt, init, condition, loop_test_l, loop_end_l, body) ==
    ForEmit(init, condition, loop_test_l, loop_end_l, body,
            generate_code(env, ctx, stmt.update_expr, body.g))

ForBody(env, ctx, stmt, init, condition) ==
    LET loop_test_l == NextLabel(Used(condition))
        loop_end_l == NextLabel(loop_test_l.g)
    IN  ForUpdate(env, ctx, stmt, init, condition, loop_test_l, loop_end_l,
                  generate_code(env, InLoop(ctx, loop_test_l.label, loop_end_l.label),
                                     stmt.loop_body, loop_end_l.g))

ForCondition(env, ctx, stmt, init) ==
    ForBody(env, ctx, stmt, init, generate_code(env, ctx, stmt.loop_condition, init.g))

\* ForStatementRecord.generate_code: an omitted part is None and raises.
ForCode(env, ctx, stmt, g) ==
    IF NoRecord \in {stmt.init_expr, stmt.loop_condition, stmt.update_expr}
    THEN [code |-> <<>>, g |-> Raise(g)]
    ELSE ForCondition(env, ctx, stmt, generate_code(env, ctx, stmt.init_expr, g))

\* ReturnStatementRecord.generate_code with a value, once it is generated.
ReturnEmit(value, cast) ==
    [code |-> value.code
                \o (IF cast THEN <<"itof " \o value.reg \o ", " \o value.reg>> ELSE <<>>)
                \o <<"move a0, " \o value.reg, "# a0 = " \o value.reg, "ret">>,
     g |-> Used(value)]

\* ReturnStatementRecord.generate_code
ReturnCode(env, ctx, stmt, g) ==
    IF stmt.return_value = NoRecord THEN [code |-> <<"ret">>, g |-> g]
    ELSE ReturnEmit(generate_code(env, ctx, stmt.return_value, g),
                    /\ ctx.method_return_type = FLOAT
                    /\ TypeOf(env, ctx, stmt.return_value) = INT)

\* ExprStatementRecord.generate_code: the code of the expression.
ExprCode(r) == [code |-> r.code, g |-> r.g]

\* BreakStatementRecord.generate_code and ContinueStatementRecord.generate_code:
\* outside a loop the context holds no label and the lookup raises.
JumpCode(label, g) ==
    IF label = None THEN [code |-> <<>>, g |-> Raise(g)]
    ELSE [code |-> <<"jmp " \o label>>, g |-> g]

\* generate_code of a node of the tree, by its class: the subclasses of
\* ExpressionRecord, then the subclasses of StatementRecord.
generate_code(env, ctx, e, g) ==
    CASE e.tag = "Constant" -> ConstantCode(e, g)
      [] e.tag = "Var" -> VarCode(ctx.cc, e, g)
      [] e.tag \in {"This", "Super"} -> ThisCode(ctx.self_t, g)
      [] e.tag = "ClassReference" -> Result(<<>>, None, g)
      [] e.tag = "FieldAccess" -> FieldAccessCode(env, ctx, e, g)
      [] e.tag = "MethodCall" -> MethodCallCode(env, ctx, e, g)
      [] e.tag = "NewObject" -> NewObjectCode(env, ctx, e, g)
      [] e.tag = "Assign" -> AssignCode(env, ctx, e, g)
      [] e.tag = "Binary" -> BinaryCode(env, ctx, e, g)
      [] e.tag = "Unary" -> UnaryCode(env, ctx, e, g)
      [] e.tag = "If" -> IfCode(env, ctx, e, g)
      [] e.tag = "While" -> WhileCode(env, ctx, e, g)
      [] e.tag = "For" -> ForCode(env, ctx, e, g)
      [] e.tag = "Return" -> ReturnCode(env, ctx, e, g)
      [] e.tag = "Expr" -> ExprCode(generate_code(env, ctx, e.expr, g))
      [] e.tag = "Block" -> generate_block(env, ctx, e.stmt_seq, 1, g)
      [] e.tag = "Break" -> JumpCode(ctx.loop_end_l, g)
      [] e.tag = "Continue" -> JumpCode(ctx.loop_test_l, g)
      [] e.tag \in {"Skip", "VariableDeclaration"} -> [code |-> <<>>, g |-> g]

\* for v in self.parameters: v.value_reg = arg_gen.next(), the argument
\* registers from first; a parameter that has a register already raises.
RECURSIVE AssignParameters(_, _, _, _, _)
AssignParameters(cc, parameters, i, first, g) ==
    IF i > Len(parameters) THEN g
    ELSE LET key == VariableKey(cc, parameters[i])
         IN  IF key \in DOMAIN g.value_reg THEN Raise(g)
             ELSE AssignParameters(cc, parameters, i + 1, first,
                      [g EXCEPT !.value_reg =
                          [x \in DOMAIN @ \cup {key} |->
                              IF x = key THEN RegisterName("a", first + i - 1) ELSE @[x]]])

\* The temporary generator a member starts with: GlobalTemporaryRegisterGenerator.reset()
MemberStart(g) == [g EXCEPT !.temp_gen = Counter_reset(@, NoStart)]

\* The state a member generates its body in: the generator reset, the
\* parameters in their argument registers.
MemberEntry(cc, parameters, first, self_l, g) ==
    LET start == MemberStart(g)
    IN  AssignParameters(cc, parameters, 1, first,
                         [start EXCEPT !.sites =
                             Append(@, [kind |-> "member", label |-> self_l,
                                        value_reg |-> start.value_reg,
                                        curr |-> start.temp_gen.curr])])

\* MethodRecord.generate_code, once the body is generated.
MethodEmit(self_l, body) == [code |-> <<self_l \o ":">> \o body.code, g |-> body.g]

MethodBody(env, method_rec, g, self_l, instance) ==
    MethodEmit(self_l,
               generate_code(env,
                                  CodeContext(method_rec.containing_class,
                                              IF instance THEN "a0" ELSE None,
                                              method_rec.return_type),
                                  method_rec.body,
                                  MemberEntry(method_rec.containing_class,
                                              method_rec.parameters,
                                              IF instance THEN 1 ELSE 0, self_l, g)))

\* MethodRecord.generate_code
MethodCode(env, method_rec, g) ==
    MethodBody(env, method_rec, g, MethodLabel(env.class_list, method_rec),
               method_rec.applicability = "instance")

\* ConstructorRecord.generate_code, once the body is generated.
ConstructorEmit(cons_rec, self_l, body) ==
    [code |-> <<"# " \o cons_rec.containing_class \o " constructor", self_l \o ":">>
                \o body.code \o <<"ret">>,
     g |-> body.g]

ConstructorBody(env, cons_rec, g, self_l) ==
    ConstructorEmit(cons_rec, self_l,
                    generate_code(env,
                                       CodeContext(cons_rec.containing_class, "a0", NoRecord),
                                       cons_rec.body,
                                       MemberEntry(cons_rec.containing_class,
                                                   cons_rec.parameters, 1, self_l, g)))

\* ConstructorRecord.generate_code
ConstructorCode(env, cons_rec, g) ==
    ConstructorBody(env, cons_rec, g,
                    ConstructorLabel(env.class_list, cons_rec.containing_class))

RECURSIVE MethodsCode(_, _, _, _)

MethodsRest(env, methods, i, first) ==
    Join(first, MethodsCode(env, methods, i + 1, first.g))

\* for m in self.methods: out.append(m.generate_code()), from method i on.
MethodsCode(env, methods, i, g) ==
    IF i > Len(methods) THEN [code |-> <<>>, g |-> g]
    ELSE MethodsRest(env, methods, i, MethodCode(env, methods[i], g))

ClassMethods(env, class_rec, constructed) ==
    Join(constructed, MethodsCode(env, class_rec.methods, 1, constructed.g))

\* ClassRecord.generate_code: the constructors (there is at most one), then
\* the methods.
ClassCode(env, class_rec, g) ==
    ClassMethods(env, class_rec,
                 IF Len(class_rec.constructors) = 0 THEN [code |-> <<>>, g |-> g]
                 ELSE ConstructorCode(env, class_rec.constructors[1], g))

\* Every string is printed with a tab in front.
PrintLine_always_indented(sub_code, debug) == <<"\t" \o sub_code>>

\* print_code of decaf_absmc.py, what it prints for one string: a label and a
\* directive are printed as they are, a comment is left out unless
\* CODEGEN_DEBUG is set and is followed by an empty line, every other line (a
\* comment too) is indented by a tab.
PrintLine(sub_code, debug) ==
    LET n == Len(sub_code)
        endswith_colon == n >= 1 /\ SubSeq(sub_code, n, n) = ":"
        startswith_dot == n >= 1 /\ SubSeq(sub_code, 1, 1) = "."
        startswith_hash == n >= 1 /\ SubSeq(sub_code, 1, 1) = "#"
    IN  IF endswith_colon \/ startswith_dot THEN <<sub_code>>
        ELSE IF startswith_hash /\ ~debug THEN <<>>
        ELSE IF startswith_hash THEN <<"\t" \o sub_code, "">>
        ELSE <<"\t" \o sub_code>>

\* print_code of decaf_absmc.py on the strings of the code list, in order.
RECURSIVE print_code(_, _)
print_code(code, debug) ==
    IF code = <<>> THEN <<>>
    ELSE PrintLine(Head(code), debug) \o print_code(Tail(code), debug)

(***************************************************************************)
(* SpecTree: the DependencyTree under any sequence of calls.               *)
(***************************************************************************)
MemberNames == {"x"}
Applicability == {"static", "instance"}

\* The class records SpecTree registers: every name, every super-class name, no members.
TreeRecords ==
    {ClassRecord(c, sup, <<>>, <<>>, <<>>) : c \in ClassNames, sup \in ClassNames \cup {None}}

\* The member lists of a class record SpecResolve registers, for a set of
\* applicabilities: a member named "x" of each, the static one first.
TreeFields(c, apps) ==
    SelectSeq(<<FieldRecord("x", "public", "static", INT, c),
                FieldRecord("x", "public", "instance", INT, c)>>,
              LAMBDA f : f.applicability \in apps)

TreeMethods(c, apps) ==
    SelectSeq(<<MethodRecord("x", "public", "static", <<>>, VOID, <<>>, c),
                MethodRecord("x", "public", "instance", <<>>, VOID, <<>>, c)>>,
              LAMBDA m : m.applicability \in apps)

\* The class records SpecResolve registers: every name, every super-class name,
\* every set of field keys; the class declares a method for each key it declares
\* no field for, so that every set of method keys occurs as well.
MemberRecords ==
    {ClassRecord(c, sup, <<>>, TreeMethods(c, Applicability \ apps), TreeFields(c, apps)) :
        c \in ClassNames, sup \in ClassNames \cup {None}, apps \in SUBSET Applicability}

\* The types is_subtype is called with.
TypesOver(names) ==
    BuiltInTypeRecordCollection
        \cup {UserTypeRecord(c) : c \in names}
        \cup {ClassLiteralTypeRecord(c) : c \in names}

\* No earlier run of main() on the file.
NoRun == [run |-> "none"]

IdleRun ==
    /\ previous = NoRun
    /\ source = <<>>
    /\ classes = <<>>
    /\ pc = "idle"
    /\ k = 0
    /\ fieldOffset = <<>>
    /\ size = <<>>
    /\ sizeWrites = <<>>
    /\ static_offset_gen = 0
    /\ static_slots = None
    /\ abcmc = <<>>
    /\ outFile = "absent"
    /\ exitCode = None
    /\ stages = <<>>
    /\ temp_gen = [start |-> 0, curr |-> 0]
    /\ label_gen = 0
    /\ value_reg = <<>>
    /\ sites = <<>>
    /\ outLines = <<>>

IdleBuild ==
    /\ scope_stack = <<>>
    /\ symbol_tables = <<>>
    /\ variable_tables = <<>>
    /\ id_gen = [field |-> 1, method |-> 1, constructor |-> 1]
    /\ created = [fields |-> <<>>, methods |-> <<>>, constructors |-> <<>>]
    /\ parsed = <<>>
    /\ last_add = [called |-> FALSE]
    /\ parse_state = "idle"

IdleMain == IdleRun /\ IdleBuild

InitTree ==
    /\ CLASS_NAME_TO_NODE = EmptyTree.map
    /\ DEPENDENCY_TREE_ROOT = EmptyTree.root
    /\ last = [op |-> "none"]
    /\ IdleMain

\* A call DependencyTree.register_class(record).
CallRegisterClass(records) ==
    \E record \in records :
        LET r == register_class(TheTree, record)
        IN  /\ CLASS_NAME_TO_NODE' = r.tree.map
            /\ DEPENDENCY_TREE_ROOT' = r.tree.root
            /\ last' = [op |-> "register_class", name |-> record.name,
                        super_class_name |-> record.super_class_name,
                        raised |-> r.raised]
            /\ UNCHANGED mainVars

\* A call DependencyTree.is_subtype(a, b).
CallIsSubtype ==
    \E a, b \in TypesOver(ClassNames) :
        /\ last' = [op |-> "is_subtype", a |-> a, b |-> b,
                    result |-> is_subtype(TheTree, a, b)]
        /\ UNCHANGED <<treeVars, mainVars>>

\* A call DependencyTree.resolve_field(class_name, field_name, is_static).
CallResolveField ==
    \E c \in ClassNames, n \in MemberNames, is_static \in BOOLEAN :
        /\ last' = [op |-> "resolve_field", class_name |-> c, name |-> n,
                    is_static |-> is_static,
                    result |-> resolve_field(TheTree, c, n, is_static)]
        /\ UNCHANGED <<treeVars, mainVars>>

\* A call DependencyTree.resolve_method(class_name, method_name, is_static).
CallResolveMethod ==
    \E c \in ClassNames, n \in MemberNames, is_static \in BOOLEAN :
        /\ last' = [op |-> "resolve_method", class_name |-> c, name |-> n,
                    is_static |-> is_static,
                    result |-> resolve_method(TheTree, c, n, is_static)]
        /\ UNCHANGED <<treeVars, mainVars>>

NextTree ==
    \/ CallRegisterClass(TreeRecords)
    \/ CallIsSubtype

SpecTree == InitTree /\ [][NextTree]_vars

NextResolve ==
    \/ CallRegisterClass(MemberRecords)
    \/ CallResolveField
    \/ CallResolveMethod

SpecResolve == InitTree /\ [][NextResolve]_vars


(***************************************************************************)
(* Spec: main() of decaf_compiler.py.  The source is given as the class    *)
(* declarations it holds; what the lexer and the grammar do with the text  *)
(* is not modelled beyond whether they accept it.  Failures of the file    *)
(* system on open() and print() are not modelled.                          *)
(***************************************************************************)
\* parser.parse raises: p_error on a syntax error (a class without a body
\* declaration is one: at_least_one_class_body_decl), p_class_decl on a class
\* that extends itself, ClassRecord.__init__ on its duplicate members.
ParseRaises(src) ==
    \/ ~src.syntax_ok
    \/ \E i \in DOMAIN src.decls :
          LET d == src.decls[i]
          IN  \/ Len(d.constructors) + Len(d.methods) + Len(d.fields) = 0
              \/ d.name = d.super_class_name
              \/ ClassRecordRaises(d.constructors, d.methods, d.fields)

\* exit(0) instead of exit(1).
Exit1_status_zero ==
    /\ pc' = "exit"
    /\ exitCode' = 0

\* exit(1) inside main(): the process ends with status 1.
Exit1 ==
    /\ pc' = "exit"
    /\ exitCode' = 1

\* classes = parser.parse(source, ...) in its try block.
Parse ==
    /\ pc = "parse"
    /\ stages' = Append(stages, "parse")
    /\ IF ParseRaises(source)
       THEN Exit1 /\ UNCHANGED classes
       ELSE /\ classes' = source.decls
            /\ pc' = "check_classes"
            /\ UNCHANGED exitCode
    /\ UNCHANGED <<codeVars, outLines>>
    /\ UNCHANGED <<buildVars, previous>>
    /\ UNCHANGED <<treeVars, last, source, k, fieldOffset, size, sizeWrites,
                   static_offset_gen, static_slots, abcmc, outFile>>

\* if len(classes) < 1: exit(1)
CheckClasses ==
    /\ pc = "check_classes"
    /\ IF Len(classes) < 1
       THEN Exit1 /\ UNCHANGED k
       ELSE /\ pc' = "type_check"
            /\ k' = 1
            /\ UNCHANGED exitCode
    /\ UNCHANGED <<codeVars, outLines>>
    /\ UNCHANGED <<buildVars, previous>>
    /\ UNCHANGED <<treeVars, last, source, classes, fieldOffset, size, sizeWrites,
                   static_offset_gen, static_slots, abcmc, outFile, stages>>

\* type_check, the loop entered for class k: DependencyTree.register_class.
TypeCheckRegister ==
    /\ pc = "type_check"
    /\ stages' = IF k = 1 THEN Append(stages, "type_check") ELSE stages
    /\ LET r == register_class(TheTree, classes[k])
       IN  IF r.raised
           THEN Exit1 /\ UNCHANGED treeVars
           ELSE /\ CLASS_NAME_TO_NODE' = r.tree.map
                /\ DEPENDENCY_TREE_ROOT' = r.tree.root
                /\ pc' = "type_check_members"
                /\ UNCHANGED exitCode
    /\ UNCHANGED <<codeVars, outLines>>
    /\ UNCHANGED <<buildVars, previous>>
    /\ UNCHANGED <<last, source, classes, k, fieldOffset, size, sizeWrites,
                   static_offset_gen, static_slots, abcmc, outFile>>

\* type_check, the rest of the loop body for class k; after the last class
\* main() goes on to resolve_sizes_and_offsets, which creates Counter(0).
TypeCheckClass ==
    /\ pc = "type_check_members"
    /\ IF ~TypeCheckMembers(TheTree, classes[k])
       THEN Exit1 /\ UNCHANGED k
       ELSE /\ UNCHANGED exitCode
            /\ IF k < Len(classes)
               THEN pc' = "type_check" /\ k' = k + 1
               ELSE pc' = "layout" /\ k' = 1
    /\ UNCHANGED <<codeVars, outLines>>
    /\ UNCHANGED <<buildVars, previous>>
    /\ UNCHANGED <<treeVars, last, source, classes, fieldOffset, size, sizeWrites,
                   static_offset_gen, static_slots, abcmc, outFile, stages>>

\* The size the super class gives a class.
SuperSize_zero(class_list, sizes, class_rec) == 0

\* resolve_sizes_and_offsets: super_size of a class, from the size of the
\* record the tree holds for its super class.
SuperSize(class_list, sizes, class_rec) ==
    IF class_rec.super_class_name = None THEN 0
    ELSE sizes[IndexOfClass(class_list, class_rec.super_class_name)]

\* resolve_sizes_and_offsets, the loop body for class k.  The super class was
\* registered before the class, so it stands earlier in the list; were its
\* size still None, Counter arithmetic would raise inside the try block.
LayoutClass ==
    /\ pc = "layout"
    /\ stages' = IF k = 1 THEN Append(stages, "layout") ELSE stages
    /\ LET class_rec == classes[k]
           sized == \/ class_rec.super_class_name = None
                    \/ /\ get_class_record(TheTree, class_rec.super_class_name) /= NoRecord
                       /\ IndexOfClass(classes, class_rec.super_class_name) \in DOMAIN size
       IN  IF ~sized
           THEN Exit1 /\ UNCHANGED <<k, fieldOffset, size, sizeWrites, static_offset_gen>>
           ELSE LET super_size == SuperSize(classes, size, class_rec)
                    l == LayoutFields(class_rec.fields, 1, static_offset_gen,
                                      super_size, <<>>)
                    class_size == CounterNext(l.instance_curr).out
                IN  /\ fieldOffset' =
                          [key \in DOMAIN fieldOffset
                                     \cup {<<k, i>> : i \in DOMAIN class_rec.fields} |->
                              IF key[1] = k THEN l.offsets[key[2]] ELSE fieldOffset[key]]
                    /\ size' = [i \in DOMAIN size \cup {k} |->
                                   IF i = k THEN class_size ELSE size[i]]
                    /\ sizeWrites' = [i \in DOMAIN sizeWrites \cup {k} |->
                                         IF i \in DOMAIN sizeWrites
                                         THEN sizeWrites[i] + (IF i = k THEN 1 ELSE 0)
                                         ELSE 1]
                    /\ static_offset_gen' = l.static_curr
                    /\ UNCHANGED exitCode
                    /\ IF k < Len(classes)
                       THEN pc' = "layout" /\ k' = k + 1
                       ELSE pc' = "layout_return" /\ UNCHANGED k
    /\ UNCHANGED <<codeVars, outLines>>
    /\ UNCHANGED <<buildVars, previous>>
    /\ UNCHANGED <<treeVars, last, source, classes, static_slots, abcmc, outFile>>

\* return static_offset_gen.next(), assigned to static_slots in main().
LayoutReturn ==
    /\ pc = "layout_return"
    /\ static_slots' = CounterNext(static_offset_gen).out
    /\ static_offset_gen' = CounterNext(static_offset_gen).curr
    /\ pc' = "codegen"
    /\ k' = 1
    /\ UNCHANGED <<codeVars, outLines>>
    /\ UNCHANGED <<buildVars, previous>>
    /\ UNCHANGED <<treeVars, last, source, classes, fieldOffset, size, sizeWrites,
                   abcmc, outFile, exitCode, stages>>

\* What the generate_code methods read besides the record they are called on:
\* the DependencyTree, the class list and what the layout pass stored.
Env == [tree |-> TheTree, class_list |-> classes, size |-> size, fieldOffset |-> fieldOffset]

\* The process-wide generators and the registers of the variables, as one state.
GenState ==
    [temp_gen |-> temp_gen, label_gen |-> label_gen, value_reg |-> value_reg,
     raised |-> FALSE, sites |-> sites]

\* What the run keeps of c.generate_code(): the code of the class and the
\* state of the generators, or the exit when it raised.
ClassGenerated(r) ==
    IF r.g.raised
    THEN Exit1 /\ UNCHANGED <<k, abcmc, codeVars>>
    ELSE /\ abcmc' = Append(abcmc, [kind |-> "class", name |-> classes[k].name,
                                    code |-> r.code])
         /\ temp_gen' = r.g.temp_gen
         /\ label_gen' = r.g.label_gen
         /\ value_reg' = r.g.value_reg
         /\ sites' = r.g.sites
         /\ UNCHANGED exitCode
         /\ IF k < Len(classes)
            THEN pc' = "codegen" /\ k' = k + 1
            ELSE pc' = "append_static_data" /\ UNCHANGED k

\* [c.generate_code() for c in classes], the element for class k.
GenerateClass ==
    /\ pc = "codegen"
    /\ stages' = IF k = 1 THEN Append(stages, "codegen") ELSE stages
    /\ ClassGenerated(ClassCode(Env, classes[k], GenState))
    /\ UNCHANGED <<buildVars, previous>>
    /\ UNCHANGED <<treeVars, last, source, classes, fieldOffset, size, sizeWrites,
                   static_offset_gen, static_slots, outFile, outLines>>

\* abcmc.append(f".static_data {static_slots}")
AppendStaticData ==
    /\ pc = "append_static_data"
    /\ abcmc' = Append(abcmc, [kind |-> ".static_data", n |-> static_slots,
                               code |-> <<".static_data " \o ToString(static_slots)>>])
    /\ pc' = "open"
    /\ UNCHANGED <<codeVars, outLines>>
    /\ UNCHANGED <<buildVars, previous>>
    /\ UNCHANGED <<treeVars, last, source, classes, k, fieldOffset, size, sizeWrites,
                   static_offset_gen, static_slots, outFile, exitCode, stages>>

\* with open(out_name, "w") as file
OpenOutput ==
    /\ pc = "open"
    /\ outFile' = "open"
    /\ pc' = "print_code"
    /\ stages' = Append(stages, "emit")
    /\ UNCHANGED <<codeVars, outLines>>
    /\ UNCHANGED <<buildVars, previous>>
    /\ UNCHANGED <<treeVars, last, source, classes, k, fieldOffset, size, sizeWrites,
                   static_offset_gen, static_slots, abcmc, exitCode>>

\* The lines of the code list, in the order print_code walks its nested lists.
RECURSIVE Flatten(_, _)
Flatten(code_list, i) ==
    IF i > Len(code_list) THEN <<>> ELSE code_list[i].code \o Flatten(code_list, i + 1)

\* print_code(abcmc, file), the end of the with block and of main().
\* CODEGEN_DEBUG is a setting of decaf_config.py: either value may be in force,
\* the same in every run of one installation.
Settings == IF previous = NoRun THEN BOOLEAN ELSE {previous.CODEGEN_DEBUG}

PrintCode ==
    /\ pc = "print_code"
    /\ \E CODEGEN_DEBUG \in Settings : outLines' = print_code(Flatten(abcmc, 1), CODEGEN_DEBUG)
    /\ outFile' = "written"
    /\ pc' = "done"
    /\ exitCode' = 0
    /\ UNCHANGED <<buildVars, previous>>
    /\ UNCHANGED <<treeVars, last, source, classes, k, fieldOffset, size, sizeWrites,
                   static_offset_gen, static_slots, abcmc, stages, codeVars>>

(***************************************************************************)
(* The programs main() is run on.                                          *)
(***************************************************************************)
Visibility == {"public", "private"}
FieldNames == <<"f1", "f2", "f3", "f4">>

EmptyBody == BlockStatement(<<>>)
PublicConstructor(c) == ConstructorRecord("public", <<>>, EmptyBody, c)
Program(decls) == [syntax_ok |-> TRUE, decls |-> decls]

\* Programs of up to MaxClasses classes A, B, ... with up to MaxFields int
\* fields each, static or instance, and an earlier class (or none) as super
\* class: the inputs of the layout pass.
FieldSeqs == UNION {[1..n -> Applicability] : n \in 0..MaxFields}

LayoutClassDecl(i, sup, apps) ==
    ClassRecord(AllNames[i], sup, <<PublicConstructor(AllNames[i])>>, <<>>,
                [j \in 1..Len(apps) |->
                    FieldRecord(FieldNames[j], "public", apps[j], INT, AllNames[i])])

\* The super classes of the classes of such a program: none or an earlier class.
SuperChoices(n) ==
    {f \in [1..n -> {None} \cup {AllNames[j] : j \in 1..n}] :
        \A i \in 1..n : f[i] = None \/ \E j \in 1..(i - 1) : f[i] = AllNames[j]}

LayoutProgram(n, sup, apps) == Program([i \in 1..n |-> LayoutClassDecl(i, sup[i], apps[i])])

\* No class, a syntax error, a class that extends itself, a class declared
\* later or a class never declared, a class declared twice, a field declared
\* twice, two constructors.
DegeneratePrograms ==
    {Program(<<>>),
     [syntax_ok |-> FALSE, decls |-> <<>>],
     Program(<<LayoutClassDecl(1, "A", <<>>)>>),
     Program(<<LayoutClassDecl(1, "B", <<>>), LayoutClassDecl(2, None, <<>>)>>),
     Program(<<LayoutClassDecl(1, None, <<>>), LayoutClassDecl(2, "E", <<>>)>>),
     Program(<<LayoutClassDecl(1, None, <<>>), LayoutClassDecl(1, None, <<>>)>>),
     Program(<<ClassRecord("A", None, <<>>, <<>>,
                           <<FieldRecord("f1", "public", "instance", INT, "A"),
                             FieldRecord("f1", "public", "instance", FLOAT, "A")>>)>>),
     Program(<<ClassRecord("A", None, <<PublicConstructor("A"), PublicConstructor("A")>>,
                           <<>>, <<>>)>>)}

\* Class A with a field x, a method m and a constructor of one visibility and
\* (x and m) one applicability; class B, with or without A as super class.
MemberClass(v, app) ==
    ClassRecord("A", None,
                <<ConstructorRecord(v, <<>>, EmptyBody, "A")>>,
                <<MethodRecord("m", v, app, <<>>, INT,
                               BlockStatement(<<ReturnStatement(Constant(INT))>>), "A")>>,
                <<FieldRecord("x", v, app, INT, "A")>>)

OtherClass(sup) == ClassRecord("B", sup, <<PublicConstructor("B")>>, <<>>, <<>>)

\* The expressions and the statement put in the body of one member.
Bases ==
    {ThisExpression, SuperExpression, ClassReference("A"), ClassReference("B"),
     NewObject("A", <<>>), NewObject("B", <<>>)}

Values ==
    {Constant(t) : t \in {INT, FLOAT, BOOLEAN_T, NULL, STRING_T}}
      \cup {NewObject("A", <<>>), NewObject("B", <<>>), ThisExpression}
      \cup {FieldAccess(b, "x") : b \in Bases}
      \cup {MethodCall(b, "m", <<>>) : b \in Bases}

Statements ==
    {ReturnStatement(NoRecord), SkipStatement}
      \cup {ReturnStatement(v) : v \in Values}
      \cup {ExprStatement(Assign(FieldAccess(b, "x"), Constant(INT))) : b \in Bases}
      \cup {ExprStatement(MethodCall(b, "m", <<>>)) : b \in Bases}
      \cup {VariableDeclarationStatement(<<Variable(UserTypeRecord(c), "local", "v", 1)>>) :
               c \in {"A", "B", "C"}}
      \cup {BlockStatement(<<VariableDeclarationStatement(
                                 <<Variable(UserTypeRecord("B"), "local", "v", 1)>>),
                             ExprStatement(Assign(VarExpression(
                                 Variable(UserTypeRecord("B"), "local", "v", 1)),
                                                  Constant(NULL)))>>)}

\* The member that holds the statement: a method f or the constructor.
Hosts ==
    {[kind |-> "method", applicability |-> app, return_type |-> rt] :
        app \in Applicability,
        rt \in {VOID, INT, FLOAT, UserTypeRecord("A"), UserTypeRecord("B")}}
      \cup {[kind |-> "constructor", applicability |-> "instance", return_type |-> NoRecord]}

WithHost(class_rec, host, stmt) ==
    IF host.kind = "method"
    THEN [class_rec EXCEPT !.methods =
            Append(@, MethodRecord("f", "public", host.applicability, <<>>,
                                   host.return_type, BlockStatement(<<stmt>>),
                                   class_rec.name))]
    ELSE [class_rec EXCEPT !.constructors =
            <<[@[1] EXCEPT !.body = BlockStatement(<<stmt>>)]>>]

\* Both classes in either order.
InOrder(a, b, a_first) == IF a_first THEN <<a, b>> ELSE <<b, a>>

BodyPrograms ==
    {Program(InOrder(IF in_a THEN WithHost(MemberClass(v, app), host, stmt)
                             ELSE MemberClass(v, app),
                     IF in_a THEN OtherClass(sup)
                             ELSE WithHost(OtherClass(sup), host, stmt),
                     a_first)) :
        v \in Visibility, app \in Applicability, sup \in {None, "A"},
        in_a \in BOOLEAN, a_first \in BOOLEAN, host \in Hosts, stmt \in Statements}

\* A declared type in one position of class A or B: a field, a parameter of
\* the constructor, a parameter of a method, the return type of a method.
WithDeclaredType(class_rec, position, type) ==
    LET c == class_rec.name
    IN  CASE position = "field" ->
                [class_rec EXCEPT !.fields =
                    Append(@, FieldRecord("y", "public", "instance", type, c))]
          [] position = "constructor parameter" ->
                [class_rec EXCEPT !.constructors =
                    <<[@[1] EXCEPT !.parameters = <<Variable(type, "formal", "p", 1)>>]>>]
          [] position = "method parameter" ->
                [class_rec EXCEPT !.methods =
                    Append(@, MethodRecord("g", "public", "instance",
                                           <<Variable(type, "formal", "p", 1)>>,
                                           VOID, EmptyBody, c))]
          [] position = "return type" ->
                [class_rec EXCEPT !.methods =
                    Append(@, MethodRecord("g", "public", "instance", <<>>, type,
                                           BlockStatement(<<ReturnStatement(Constant(NULL))>>),
                                           c))]

Positions == {"field", "constructor parameter", "method parameter", "return type"}

DeclaredTypePrograms ==
    {Program(InOrder(IF in_a THEN WithDeclaredType(OtherClass(None) , position, type)
                             ELSE OtherClass(None),
                     IF in_a THEN LayoutClassDecl(1, None, <<>>)
                             ELSE WithDeclaredType(LayoutClassDecl(1, None, <<>>),
                                                   position, type),
                     a_first)) :
        in_a \in BOOLEAN, a_first \in BOOLEAN, position \in Positions,
        type \in {UserTypeRecord(c) : c \in {"A", "B", "C"}}}

Programs == DegeneratePrograms \cup BodyPrograms \cup DeclaredTypePrograms

(***************************************************************************)
(* The programs the code generator is run on.                              *)
(*                                                                         *)
(*   class A { int x; static int s;                                        *)
(*             public A(int p) { }                                         *)
(*             public static int f(int a, float b) { return a; }           *)
(*             public int g(int a) { return a; }                           *)
(*             public void h() { }                                         *)
(*             public [static] int host(int q) { int i; boolean c; ... }   *)
(*             public int last(int a) { int j; j = a; return j; } }        *)
(*   class B extends A { int y;                                            *)
(*             public B(int p) { }                                         *)
(*             public int k(A o) { return o.g(7); } }                      *)
(*                                                                         *)
(* The variables carry the ids Scope.add_symbol gives them: one plus the   *)
(* length of the variable table, which the scopes of a class share.        *)
(***************************************************************************)
MaxNesting == 2     \* calls nested in the arguments or the base of a call

A_p == Variable(INT, "formal", "p", 1)
f_a == Variable(INT, "formal", "a", 2)
f_b == Variable(FLOAT, "formal", "b", 3)
g_a == Variable(INT, "formal", "a", 4)
host_q == Variable(INT, "formal", "q", 5)
host_i == Variable(INT, "local", "i", 6)
host_c == Variable(BOOLEAN_T, "local", "c", 7)
last_a == Variable(INT, "formal", "a", 8)
last_j == Variable(INT, "local", "j", 9)
B_p == Variable(INT, "formal", "p", 1)
k_o == Variable(UserTypeRecord("A"), "formal", "o", 2)

\* The int expressions of host with calls nested at most depth deep, and the
\* calls among them: A.f(v, w), this.g(v), new A(v).g(7).
RECURSIVE IntValues(_)
RECURSIVE Calls(_)
IntValues(depth) ==
    IF depth = 0 THEN {Constant(INT), VarExpression(host_i), VarExpression(host_q)}
    ELSE IntValues(depth - 1) \cup Calls(depth)

Calls(depth) ==
    LET values == IntValues(depth - 1)
    IN  {MethodCall(ClassReference("A"), "f", <<v, w>>) :
            v \in values, w \in {Constant(FLOAT), Constant(INT)}}
          \cup {MethodCall(ThisExpression, "g", <<v>>) : v \in values}
          \cup {MethodCall(NewObject("A", <<v>>), "g", <<Constant(INT)>>) : v \in values}

AssignSeven == ExprStatement(Assign(VarExpression(host_i), Constant(INT)))
CallF == ExprStatement(MethodCall(ClassReference("A"), "f",
                                  <<VarExpression(host_i), Constant(FLOAT)>>))

\* Statements without a statement inside.
SimpleStatements ==
    {SkipStatement, BreakStatement, ContinueStatement, AssignSeven, CallF,
     ReturnStatement(VarExpression(host_i)),
     ExprStatement(MethodCall(ThisExpression, "h", <<>>)),
     ExprStatement(Assign(FieldAccess(ThisExpression, "x"), VarExpression(host_i))),
     ExprStatement(Assign(FieldAccess(ClassReference("A"), "s"),
                          FieldAccess(ThisExpression, "x")))}

\* The statements a branch or a loop body is.
InnerStatements ==
    SimpleStatements
      \cup {WhileStatement(Constant(BOOLEAN_T), BreakStatement),
            IfStatement(VarExpression(host_c), BreakStatement, ContinueStatement),
            IfStatement(VarExpression(host_c), AssignSeven, NoRecord),
            BlockStatement(<<AssignSeven, CallF>>)}

Conditions ==
    {Constant(BOOLEAN_T), VarExpression(host_c),
     Binary("lt", VarExpression(host_i), VarExpression(host_q))}

Increment ==
    Assign(VarExpression(host_i), Binary("add", VarExpression(host_i), Constant(INT)))

\* Statements with an operator expression: c = i == q, c = i != 1.5,
\* c = c || !c, i = -i, A.f(i, -1.5), A.f(q, i), A.f(q, i + 1.5).
OperatorStatements ==
    {ExprStatement(Assign(VarExpression(host_c), Binary(op, VarExpression(host_i), v))) :
        op \in {"eq", "neq"}, v \in {VarExpression(host_q), Constant(FLOAT)}}
      \cup {ExprStatement(Assign(VarExpression(host_c),
                                 Binary("or", VarExpression(host_c),
                                        Unary("neg", VarExpression(host_c))))),
            ExprStatement(Assign(VarExpression(host_i),
                                 Unary("uminus", VarExpression(host_i))))}
      \cup {ExprStatement(MethodCall(ClassReference("A"), "f", <<v, w>>)) :
               v \in {VarExpression(host_q)},
               w \in {Unary("uminus", Constant(FLOAT)), VarExpression(host_i),
                      Binary("add", VarExpression(host_i), Constant(FLOAT))}}

\* The statement of host under test.
HostStatements ==
    SimpleStatements
      \cup OperatorStatements
      \cup {ExprStatement(c) : c \in Calls(MaxNesting)}
      \cup {ExprStatement(Assign(VarExpression(host_i), c)) : c \in Calls(MaxNesting)}
      \cup {ReturnStatement(c) : c \in Calls(1)}
      \cup {IfStatement(c, s1, s2) :
               c \in Conditions, s1 \in InnerStatements, s2 \in InnerStatements \cup {NoRecord}}
      \cup {WhileStatement(c, s) : c \in Conditions, s \in InnerStatements}
      \cup {ForStatement(init, Binary("lt", VarExpression(host_i), VarExpression(host_q)),
                         Increment, s) :
               init \in {AssignSeven.expr, NoRecord}, s \in InnerStatements}

\* Class A with the statement under test in host, after the statements of prefix.
CodeClassA(app, prefix, stmt) ==
    ClassRecord("A", None,
        <<ConstructorRecord("public", <<A_p>>, EmptyBody, "A")>>,
        <<MethodRecord("f", "public", "static", <<f_a, f_b>>, INT,
                       BlockStatement(<<ReturnStatement(VarExpression(f_a))>>), "A"),
          MethodRecord("g", "public", "instance", <<g_a>>, INT,
                       BlockStatement(<<ReturnStatement(VarExpression(g_a))>>), "A"),
          MethodRecord("h", "public", "instance", <<>>, VOID, EmptyBody, "A"),
          MethodRecord("host", "public", app, <<host_q>>, INT,
                       BlockStatement(<<VariableDeclarationStatement(<<host_i>>),
                                        VariableDeclarationStatement(<<host_c>>)>>
                                        \o prefix \o <<stmt>>), "A"),
          MethodRecord("last", "public", "instance", <<last_a>>, INT,
                       BlockStatement(<<VariableDeclarationStatement(<<last_j>>),
                                        ExprStatement(Assign(VarExpression(last_j),
                                                             VarExpression(last_a))),
                                        ReturnStatement(VarExpression(last_j))>>), "A")>>,
        <<FieldRecord("x", "public", "instance", INT, "A"),
          FieldRecord("s", "public", "static", INT, "A")>>)

CodeClassB ==
    ClassRecord("B", "A",
        <<ConstructorRecord("public", <<B_p>>, EmptyBody, "B")>>,
        <<MethodRecord("k", "public", "instance", <<k_o>>, INT,
                       BlockStatement(<<ReturnStatement(
                           MethodCall(VarExpression(k_o), "g", <<Constant(INT)>>))>>), "B")>>,
        <<FieldRecord("y", "public", "instance", INT, "B")>>)

\* The statements of host before the statement under test: none, or one that
\* takes temporaries.
Prefixes == {<<>>, <<AssignSeven>>}

CodeProgram(app, prefix, stmt) == Program(<<CodeClassA(app, prefix, stmt), CodeClassB>>)

\* The state when main() is about to parse: the tree is empty, nothing is
\* laid out, no output file exists.
Init ==
    /\ CLASS_NAME_TO_NODE = EmptyTree.map
    /\ DEPENDENCY_TREE_ROOT = EmptyTree.root
    /\ last = [op |-> "none"]
    /\ \/ source \in Programs
       \/ \E n \in 1..MaxClasses : \E sup \in SuperChoices(n) :
             \E apps \in [1..n -> FieldSeqs] : source = LayoutProgram(n, sup, apps)
       \/ \E app \in Applicability, prefix \in Prefixes, stmt \in HostStatements :
             source = CodeProgram(app, prefix, stmt)
    /\ classes = <<>>
    /\ pc = "parse"
    /\ k = 0
    /\ fieldOffset = <<>>
    /\ size = <<>>
    /\ sizeWrites = <<>>
    /\ static_offset_gen = 0
    /\ static_slots = None
    /\ abcmc = <<>>
    /\ outFile = "absent"
    /\ exitCode = None
    /\ stages = <<>>
    /\ temp_gen = [start |-> 0, curr |-> 0]
    /\ label_gen = 0
    /\ value_reg = <<>>
    /\ sites = <<>>
    /\ outLines = <<>>
    /\ previous = NoRun
    /\ IdleBuild

Next ==
    \/ Parse
    \/ CheckClasses
    \/ TypeCheckRegister
    \/ TypeCheckClass
    \/ LayoutClass
    \/ LayoutReturn
    \/ GenerateClass
    \/ AppendStaticData
    \/ OpenOutput
    \/ PrintCode

Spec == Init /\ [][Next]_vars

(***************************************************************************)
(* SpecTwice: main() is run a second time, in a new process, on the file   *)
(* of a run that has ended.  Every class attribute and module global of    *)
(* the first process (the dependency tree, the generators, the records) is *)
(* gone; the file and decaf_config.py are the same.                        *)
(***************************************************************************)
NewProcess_same_generators(generators) == generators

\* The generators of a process that has just imported decaf_absmc, and the
\* value_reg of the VariableRecords it has yet to create.
NewProcess(generators) ==
    [temp_gen |-> [start |-> 0, curr |-> 0], label_gen |-> 0, value_reg |-> <<>>]

\* python3 decaf_compiler.py <file>, once more.
RunAgain ==
    /\ pc \in {"done", "exit"}
    /\ previous = NoRun
    /\ \E CODEGEN_DEBUG \in BOOLEAN :
          /\ outFile = "written" => outLines = print_code(Flatten(abcmc, 1), CODEGEN_DEBUG)
          /\ previous' = [run |-> "ended", source |-> source,
                          CODEGEN_DEBUG |-> CODEGEN_DEBUG, exitCode |-> exitCode,
                          outFile |-> outFile, outLines |-> outLines, stages |-> stages]
    /\ LET new == NewProcess([temp_gen |-> temp_gen, label_gen |-> label_gen,
                              value_reg |-> value_reg])
       IN  /\ temp_gen' = new.temp_gen
           /\ label_gen' = new.label_gen
           /\ value_reg' = new.value_reg
    /\ CLASS_NAME_TO_NODE' = EmptyTree.map
    /\ DEPENDENCY_TREE_ROOT' = EmptyTree.root
    /\ last' = [op |-> "none"]
    /\ classes' = <<>>
    /\ pc' = "parse"
    /\ k' = 0
    /\ fieldOffset' = <<>>
    /\ size' = <<>>
    /\ sizeWrites' = <<>>
    /\ static_offset_gen' = 0
    /\ static_slots' = None
    /\ abcmc' = <<>>
    /\ outFile' = "absent"
    /\ exitCode' = None
    /\ stages' = <<>>
    /\ sites' = <<>>
    /\ outLines' = <<>>
    /\ UNCHANGED <<source, buildVars>>

NextTwice == Next \/ RunAgain

SpecTwice == Init /\ [][NextTwice]_vars

(***************************************************************************)
(* SpecBuild: the semantic actions of the parser that enter and leave      *)
(* scopes, declare variables and create the records (decaf_scope.py and    *)
(* the rules/ modules), in the orders the grammar lets them run.  A frame  *)
(* of scope_stack is a Scope together with the values the parser holds for *)
(* the construct it is inside; a dict or a list that several scopes refer  *)
(* to is one entry of symbol_tables or variable_tables.  Every type is     *)
(* int, every member public; expressions and the statements that declare   *)
(* nothing are left out.                                                   *)
(***************************************************************************)
MaxSymbols == 3     \* variables declared in a program
MaxMembers == 2     \* methods and constructors of a program
MaxDepth == 2       \* blocks inside one another, the body of a member being the first
MaxStatements == 1  \* statements of a block

VariableNames == {"a", "b"}

\* Scope.current
Current == scope_stack[Len(scope_stack)]

\* The child scope has a symbol table of its own.
Scope_own_symbol_table(parent_scope, share_table_with_child, block_child, class_name) ==
    [share_table_with_child |-> share_table_with_child,
     block_child |-> block_child,
     symbol_table |-> Len(symbol_tables) + 1,
     variable_table |-> IF parent_scope /= NoRecord THEN parent_scope.variable_table
                        ELSE Len(variable_tables) + 1,
     class_name |-> IF class_name /= None THEN class_name
                    ELSE IF parent_scope /= NoRecord THEN parent_scope.class_name
                    ELSE None]

\* Scope.__init__: the symbol table is the parent's when the parent shares it
\* and a new dict otherwise; the variable table is the parent's whenever
\* there is a parent and a new list otherwise.  A new dict or list is the
\* next entry of symbol_tables or variable_tables.
Scope(parent_scope, share_table_with_child, block_child, class_name) ==
    [share_table_with_child |-> share_table_with_child,
     block_child |-> block_child,
     symbol_table |-> IF parent_scope /= NoRecord /\ parent_scope.share_table_with_child
                      THEN parent_scope.symbol_table
                      ELSE Len(symbol_tables) + 1,
     variable_table |-> IF parent_scope /= NoRecord THEN parent_scope.variable_table
                        ELSE Len(variable_tables) + 1,
     class_name |-> IF class_name /= None THEN class_name
                    ELSE IF parent_scope /= NoRecord THEN parent_scope.class_name
                    ELSE None]

\* What the parser holds for the construct a scope was entered for: the
\* member being declared and its formals and body, the statements of a block,
\* the body declarations of a class; declared and own are the variables this
\* member and the names this scope have declared, locals the records of the
\* variables this scope has declared.
Frame(scope, kind, member) ==
    [scope |-> scope, kind |-> kind, member |-> member, formals |-> <<>>,
     body |-> NoRecord, stmt_list |-> <<>>, declarations |-> <<>>,
     declared |-> <<>>, own |-> {}, locals |-> <<>>]

\* Scope.enter_new_scope, for the construct the frame describes.
enter_new_scope(share_table_with_child, block_child, class_name, kind, member) ==
    LET parent_scope == IF scope_stack = <<>> THEN NoRecord ELSE Current.scope
        scope == Scope(parent_scope, share_table_with_child, block_child, class_name)
    IN  /\ scope_stack' = Append(scope_stack, Frame(scope, kind, member))
        /\ symbol_tables' = IF scope.symbol_table > Len(symbol_tables)
                            THEN Append(symbol_tables, <<>>) ELSE symbol_tables
        /\ variable_tables' = IF scope.variable_table > Len(variable_tables)
                              THEN Append(variable_tables, <<>>) ELSE variable_tables

\* Scope.add_symbol on the tables st and vt: what it returns, the record with
\* the id it was given, and the tables after.
add_symbol(scope, ref, st, vt) ==
    IF ref.name \in DOMAIN st[scope.symbol_table]
    THEN [result |-> FALSE, ref |-> ref, symbol_tables |-> st, variable_tables |-> vt]
    ELSE LET added == [ref EXCEPT !.id = Len(vt[scope.variable_table]) + 1]
         IN  [result |-> TRUE, ref |-> added,
              symbol_tables |->
                  [st EXCEPT ![scope.symbol_table] =
                      [n \in DOMAIN @ \cup {ref.name} |->
                          IF n = ref.name THEN added ELSE @[n]]],
              variable_tables |-> [vt EXCEPT ![scope.variable_table] = Append(@, added)]]

\* Where a declaration stands: a formal, a local of the body of the member,
\* a local of a block inside it.
PositionOf(stack) ==
    IF stack[Len(stack)].kind = "function" THEN "formal"
    ELSE IF Len(stack) = 3 THEN "top" ELSE "nested"

\* An add_symbol call as last_add keeps it: the tables of the scope before
\* and after, the result, the id the record was left with, and whether the
\* program had declared the name before where the call stands (own names of
\* the scopes, kept apart from the symbol tables).
AddCall(stack, ref, st, vt, r) ==
    LET scope == stack[Len(stack)].scope
    IN  [called |-> TRUE, name |-> ref.name, position |-> PositionOf(stack),
         own_scope |-> ref.name \in stack[Len(stack)].own,
         formal |-> ref.name \in stack[2].own,
         result |-> r.result, id |-> r.ref.id,
         symbol_before |-> st[scope.symbol_table],
         symbol_after |-> r.symbol_tables[scope.symbol_table],
         table_before |-> vt[scope.variable_table],
         table_after |-> r.variable_tables[scope.variable_table]]

\* A successful declaration in the frames: the name is the scope's own, the
\* variable is one of the member (frame 2 is the member's).
Declare(stack, ref) ==
    [i \in DOMAIN stack |->
        [stack[i] EXCEPT !.own = IF i = Len(stack) THEN @ \cup {ref.name} ELSE @,
                         !.locals = IF i = Len(stack) THEN Append(@, ref) ELSE @,
                         !.declared = IF i = 2 THEN Append(@, ref) ELSE @]]

\* for v in variables: if not Scope.current.add_symbol(v): raise, from
\* variable i on, on the state s = [stack, symbol_tables, variable_tables,
\* variables, last_add, raised].
RECURSIVE AddAll(_, _, _)
AddAll(s, names, i) ==
    IF i > Len(names) THEN s
    ELSE LET ref == VariableRecord(INT, "local", names[i])
             r == add_symbol(s.stack[Len(s.stack)].scope, ref,
                             s.symbol_tables, s.variable_tables)
             call == AddCall(s.stack, ref, s.symbol_tables, s.variable_tables, r)
         IN  IF ~r.result THEN [s EXCEPT !.last_add = call, !.raised = TRUE]
             ELSE AddAll([stack |-> Declare(s.stack, r.ref),
                          symbol_tables |-> r.symbol_tables,
                          variable_tables |-> r.variable_tables,
                          variables |-> Append(s.variables, r.ref),
                          last_add |-> call, raised |-> FALSE], names, i + 1)

\* Counter.next of the id_gen of a kind of record, all kinds on one counter.
IdGenNext_one_counter(gen, kind) ==
    [id |-> gen.field + gen.method + gen.constructor - 2, gen |-> [gen EXCEPT ![kind] = @ + 1]]

\* Counter.next of FieldRecord.id_gen, MethodRecord.id_gen or ConstructorRecord.id_gen.
IdGenNext(gen, kind) == [id |-> gen[kind], gen |-> [gen EXCEPT ![kind] = @ + 1]]

\* A record with what __init__ stored besides its arguments: its id and, for
\* a member, the list its variable_table is, and the variables it declared.
Built(record, id, variable_table, declared) ==
    [record |-> record, id |-> id, variable_table |-> variable_table, declared |-> declared]

\* The declarations of one kind among the body declarations of a class.
Bucket(declarations, key) ==
    LET chosen == SelectSeq(declarations, LAMBDA decl : decl[1] = key)
    IN  [i \in DOMAIN chosen |-> chosen[i][2]]

\* The variables declared so far, in all classes.
RECURSIVE Declared(_)
Declared(i) == IF i = 0 THEN 0 ELSE Len(variable_tables[i]) + Declared(i - 1)

\* The members whose declaration has begun.
Members ==
    Len(created.methods) + Len(created.constructors)
      + Cardinality({i \in DOMAIN scope_stack : scope_stack[i].kind = "function"})

\* An exception leaves the parser.
ParseRaise ==
    /\ parse_state' = "raised"

\* p_enter_class: enter_class : CLASS ID
EnterClass ==
    /\ parse_state = "parsing"
    /\ scope_stack = <<>>
    /\ Len(parsed) < MaxClasses
    /\ enter_new_scope(FALSE, TRUE, AllNames[Len(parsed) + 1], "class", NoRecord)
    /\ UNCHANGED <<id_gen, created, parsed, last_add, parse_state>>
    /\ UNCHANGED <<treeVars, last, runVars, previous>>

\* p_var_decl and p_field_decl: field_decl : modifier var_decl, for one
\* variable; the VariableRecord of var_decl is added to no scope.
FieldDecl ==
    /\ parse_state = "parsing"
    /\ scope_stack /= <<>>
    /\ Current.kind = "class"
    /\ Len(created.fields) < MaxFields
    /\ \E applicability \in {"instance"} :
          LET v == VariableRecord(INT, "local",
                                  FieldNames[Len(Bucket(Current.declarations, "F")) + 1])
              n == IdGenNext(id_gen, "field")
              field == FieldRecord(v.name, "public", applicability, v.type,
                                   Current.scope.class_name)
          IN  /\ id_gen' = n.gen
              /\ created' = [created EXCEPT !.fields =
                                Append(@, Built(field, n.id, 0, <<>>))]
              /\ scope_stack' = [scope_stack EXCEPT ![Len(scope_stack)].declarations =
                                    Append(@, <<"F", field>>)]
    /\ UNCHANGED <<symbol_tables, variable_tables, parsed, last_add, parse_state>>
    /\ UNCHANGED <<treeVars, last, runVars, previous>>

\* p_enter_function_scope: enter_function_scope : LPAREN, inside method_decl
\* or constructor_decl, after the name of the member.
EnterFunctionScope ==
    /\ parse_state = "parsing"
    /\ scope_stack /= <<>>
    /\ Current.kind = "class"
    /\ Members < MaxMembers
    /\ \E member \in {[kind |-> "method",
                       name |-> "m" \o ToString(Len(Bucket(Current.declarations, "M")) + 1)],
                      [kind |-> "constructor", name |-> Current.scope.class_name],
                      [kind |-> "constructor", name |-> "m"]} :
          enter_new_scope(TRUE, FALSE, None, "function", member)
    /\ UNCHANGED <<id_gen, created, parsed, last_add, parse_state>>
    /\ UNCHANGED <<treeVars, last, runVars, previous>>

\* p_formal_param: formal_param : type variable
FormalParam ==
    /\ parse_state = "parsing"
    /\ scope_stack /= <<>>
    /\ Current.kind = "function"
    /\ Current.body = NoRecord
    /\ Declared(Len(variable_tables)) < MaxSymbols
    /\ \E name \in VariableNames :
          LET rec == VariableRecord(INT, "formal", name)
              r == add_symbol(Current.scope, rec, symbol_tables, variable_tables)
          IN  /\ last_add' = AddCall(scope_stack, rec, symbol_tables, variable_tables, r)
              /\ symbol_tables' = r.symbol_tables
              /\ variable_tables' = r.variable_tables
              /\ IF ~r.result THEN ParseRaise /\ UNCHANGED scope_stack
                 ELSE /\ scope_stack' =
                            [Declare(scope_stack, r.ref) EXCEPT ![Len(scope_stack)].formals =
                                Append(@, r.ref)]
                      /\ UNCHANGED parse_state
    /\ UNCHANGED <<id_gen, created, parsed>>
    /\ UNCHANGED <<treeVars, last, runVars, previous>>

\* p_enter_normal_scope: enter_normal_scope : LBRACE, the body of a member or
\* a block statement.
EnterBlock ==
    /\ parse_state = "parsing"
    /\ scope_stack /= <<>>
    /\ \/ Current.kind = "function" /\ Current.body = NoRecord
       \/ /\ Current.kind = "block"
          /\ Len(scope_stack) - 2 < MaxDepth
          /\ Len(Current.stmt_list) < MaxStatements
    /\ enter_new_scope(FALSE, FALSE, None, "block", NoRecord)
    /\ UNCHANGED <<id_gen, created, parsed, last_add, parse_state>>
    /\ UNCHANGED <<treeVars, last, runVars, previous>>

\* p_var_decl and p_stmt_var_decl: stmt : var_decl
VarDecl ==
    /\ parse_state = "parsing"
    /\ scope_stack /= <<>>
    /\ Current.kind = "block"
    /\ Len(Current.stmt_list) < MaxStatements
    /\ \E names \in UNION {[1..n -> VariableNames] : n \in 1..2} :
          /\ Declared(Len(variable_tables)) + Len(names) <= MaxSymbols
          /\ LET s == AddAll([stack |-> scope_stack, symbol_tables |-> symbol_tables,
                              variable_tables |-> variable_tables, variables |-> <<>>,
                              last_add |-> last_add, raised |-> FALSE], names, 1)
             IN  /\ symbol_tables' = s.symbol_tables
                 /\ variable_tables' = s.variable_tables
                 /\ last_add' = s.last_add
                 /\ IF s.raised THEN ParseRaise /\ scope_stack' = s.stack
                    ELSE /\ scope_stack' =
                               [s.stack EXCEPT ![Len(scope_stack)].stmt_list =
                                   Append(@, VariableDeclarationStatement(s.variables))]
                         /\ UNCHANGED parse_state
    /\ UNCHANGED <<id_gen, created, parsed>>
    /\ UNCHANGED <<treeVars, last, runVars, previous>>

\* p_block: block : enter_normal_scope stmt_list RBRACE, and p_block_stmt for
\* a block that is a statement.
ExitBlock ==
    /\ parse_state = "parsing"
    /\ scope_stack /= <<>>
    /\ Current.kind = "block"
    /\ LET block == BlockStatement(Current.stmt_list)
           outer == SubSeq(scope_stack, 1, Len(scope_stack) - 1)
       IN  scope_stack' =
               IF outer[Len(outer)].kind = "function"
               THEN [outer EXCEPT ![Len(outer)].body = block]
               ELSE [outer EXCEPT ![Len(outer)].stmt_list = Append(@, block)]
    /\ UNCHANGED <<symbol_tables, variable_tables, id_gen, created, parsed, last_add,
                   parse_state>>
    /\ UNCHANGED <<treeVars, last, runVars, previous>>

\* p_method_decl and p_constructor_decl, then p_class_body_decl_method or
\* p_class_body_decl_constructor.
MemberDecl ==
    /\ parse_state = "parsing"
    /\ scope_stack /= <<>>
    /\ Current.kind = "function"
    /\ Current.body /= NoRecord
    /\ LET scope_class_name == Current.scope.class_name
           variable_table == Current.scope.variable_table
           outer == SubSeq(scope_stack, 1, Len(scope_stack) - 1)
           kind == Current.member.kind
           n == IdGenNext(id_gen, kind)
           record == IF kind = "method"
                     THEN MethodRecord(Current.member.name, "public", "instance",
                                       Current.formals, INT, Current.body, scope_class_name)
                     ELSE ConstructorRecord("public", Current.formals, Current.body,
                                            scope_class_name)
       IN  IF kind = "constructor" /\ Current.member.name /= scope_class_name
           THEN ParseRaise /\ UNCHANGED <<scope_stack, id_gen, created>>
           ELSE /\ scope_stack' =
                      [outer EXCEPT ![Len(outer)].declarations =
                          Append(@, <<IF kind = "method" THEN "M" ELSE "C", record>>)]
                /\ id_gen' = n.gen
                /\ created' =
                      [created EXCEPT ![IF kind = "method" THEN "methods" ELSE "constructors"] =
                          Append(@, Built(record, n.id, variable_table, Current.declared))]
                /\ UNCHANGED parse_state
    /\ UNCHANGED <<symbol_tables, variable_tables, parsed, last_add>>
    /\ UNCHANGED <<treeVars, last, runVars, previous>>

\* p_class_decl: class_decl : enter_class optional_extends LBRACE
\* at_least_one_class_body_decl RBRACE
ClassDecl ==
    /\ parse_state = "parsing"
    /\ scope_stack /= <<>>
    /\ Current.kind = "class"
    /\ Current.declarations /= <<>>
    /\ \E super_class_name \in {None, Current.scope.class_name} :
          LET name == Current.scope.class_name
              constructors == Bucket(Current.declarations, "C")
              methods == Bucket(Current.declarations, "M")
              fields == Bucket(Current.declarations, "F")
          IN  IF name = super_class_name
              THEN ParseRaise /\ UNCHANGED <<scope_stack, parsed>>
              ELSE /\ scope_stack' = SubSeq(scope_stack, 1, Len(scope_stack) - 1)
                   /\ IF ClassRecordRaises(constructors, methods, fields)
                      THEN ParseRaise /\ UNCHANGED parsed
                      ELSE /\ parsed' = Append(parsed, ClassRecord(name, super_class_name,
                                                                   constructors, methods, fields))
                           /\ UNCHANGED parse_state
    /\ UNCHANGED <<symbol_tables, variable_tables, id_gen, created, last_add>>
    /\ UNCHANGED <<treeVars, last, runVars, previous>>

\* The parser before the first token: Scope.current is None, every id_gen is Counter(1).
InitBuild ==
    /\ CLASS_NAME_TO_NODE = EmptyTree.map
    /\ DEPENDENCY_TREE_ROOT = EmptyTree.root
    /\ last = [op |-> "none"]
    /\ IdleRun
    /\ scope_stack = <<>>
    /\ symbol_tables = <<>>
    /\ variable_tables = <<>>
    /\ id_gen = [field |-> 1, method |-> 1, constructor |-> 1]
    /\ created = [fields |-> <<>>, methods |-> <<>>, constructors |-> <<>>]
    /\ parsed = <<>>
    /\ last_add = [called |-> FALSE]
    /\ parse_state = "parsing"

NextBuild ==
    \/ EnterClass
    \/ FieldDecl
    \/ EnterFunctionScope
    \/ FormalParam
    \/ EnterBlock
    \/ VarDecl
    \/ ExitBlock
    \/ MemberDecl
    \/ ClassDecl

SpecBuild == InitBuild /\ [][NextBuild]_vars

(***************************************************************************)
(* SpecScope: SpecBuild together with the one semantic action that looks a *)
(* name up, p_field_access for field_access : ID.  The parent of the scope *)
(* of a frame is the scope of the frame below it.                          *)
(***************************************************************************)
LookupNames == VariableNames \cup {"A"}

\* Scope.lookup_symbol of the scope of frame i, ignoring the parent.
lookup_symbol_current_only(stack, st, i, name) ==
    IF name \in DOMAIN st[stack[i].scope.symbol_table]
    THEN st[stack[i].scope.symbol_table][name]
    ELSE NoRecord

\* Scope.lookup_symbol of the scope of frame i, on the symbol tables st.
RECURSIVE lookup_symbol(_, _, _, _)
lookup_symbol(stack, st, i, name) ==
    IF name \in DOMAIN st[stack[i].scope.symbol_table]
    THEN st[stack[i].scope.symbol_table][name]
    ELSE IF i > 1 /\ ~stack[i - 1].scope.block_child
         THEN lookup_symbol(stack, st, i - 1, name)
         ELSE NoRecord

\* p_field_access: field_access : ID, inside the body of a member; the
\* expression is a VarExpressionRecord of the record found and a
\* ClassReferenceExpressionRecord when nothing was found.
p_field_access ==
    /\ parse_state = "parsing"
    /\ scope_stack /= <<>>
    /\ Current.kind = "block"
    /\ \E name \in LookupNames :
          LET rec == lookup_symbol(scope_stack, symbol_tables, Len(scope_stack), name)
          IN  last' = [op |-> "lookup_symbol", name |-> name, rec |-> rec,
                       expr |-> IF rec = NoRecord THEN ClassReference(name)
                                ELSE VarExpression(rec)]
    /\ UNCHANGED <<treeVars, runVars, buildVars, previous>>

NextScope ==
    \/ NextBuild
    \/ p_field_access

SpecScope == InitBuild /\ [][NextScope]_vars

(***************************************************************************)
(* Claims about the DependencyTree.                                        *)
(***************************************************************************)
Registered == DOMAIN CLASS_NAME_TO_NODE

\* The subtype relation of the specification's data model, over registered classes.
RECURSIVE Chain(_, _)
Chain(tree, c) == IF c = ROOT THEN <<>> ELSE <<c>> \o Chain(tree, tree.map[c].parent)

SubtypeRelation(a, b) ==
    \/ a = b /\ a /= ERROR
    \/ a = INT /\ b = FLOAT
    \/ a = NULL /\ b.kind = "user"
    \/ /\ a.kind = b.kind
       /\ a.kind \in {"user", "class-literal"}
       /\ b.type \in Range(Chain(TheTree, a.type))

\* C2: for types over the built-ins and the registered classes, is_subtype
\* returns a boolean, and returns True exactly for the pairs of the subtype
\* relation (same type, int <: float, null <: user, ascending parents).
C2_IsSubtypeTotal ==
    (/\ last.op = "is_subtype"
     /\ last.a \in TypesOver(Registered)
     /\ last.b \in TypesOver(Registered))
    => /\ last.result \in {True, False}
       /\ (last.result = True) <=> SubtypeRelation(last.a, last.b)

\* C2, the part the code keeps: whenever is_subtype returns, it returns True
\* exactly for the pairs of the relation, and a call with error on either side
\* returns False.
C2_IsSubtypeWhenItReturns ==
    (/\ last.op = "is_subtype"
     /\ last.a \in TypesOver(Registered)
     /\ last.b \in TypesOver(Registered))
    => /\ last.result \in {True, False}
            => ((last.result = True) <=> SubtypeRelation(last.a, last.b))
       /\ (last.a = ERROR \/ last.b = ERROR) => last.result = False
       /\ last.result \notin {True, False}
            => (last.a.kind = "builtin" /\ last.b \in {VOID, NULL} /\ last.a /= last.b)

C2_Witness ==
    /\ last.op = "is_subtype"
    /\ last.a = UserTypeRecord("C")
    /\ last.b = UserTypeRecord("A")
    /\ last.result = True
    /\ CLASS_NAME_TO_NODE["C"].parent = "B"

\* C3: a call register_class(record) raises exactly when the name is registered
\* already or the super-class is not (a class extending itself included); a call
\* that raises leaves the map, every parent and every child list as they were; a
\* call that returns adds one node, under its super-class's node or under the root.
C3_Step ==
    last'.op = "register_class" =>
        LET name == last'.name
            sup == last'.super_class_name
            parent == IF sup = None THEN ROOT ELSE sup
            SubclassesOf(map, root, n) == IF n = ROOT THEN root.subclasses
                                          ELSE map[n].subclasses
        IN  /\ last'.raised <=> (name \in Registered \/ (sup /= None /\ sup \notin Registered))
            /\ last'.raised => /\ CLASS_NAME_TO_NODE' = CLASS_NAME_TO_NODE
                               /\ DEPENDENCY_TREE_ROOT' = DEPENDENCY_TREE_ROOT
            /\ ~last'.raised =>
                /\ name \notin Registered
                /\ DOMAIN CLASS_NAME_TO_NODE' = Registered \cup {name}
                /\ CLASS_NAME_TO_NODE'[name].parent = parent
                /\ CLASS_NAME_TO_NODE'[name].subclasses = <<>>
                /\ CLASS_NAME_TO_NODE'[name].record.name = name
                /\ DEPENDENCY_TREE_ROOT'.parent = None
                /\ \A n \in Registered :
                      /\ CLASS_NAME_TO_NODE'[n].parent = CLASS_NAME_TO_NODE[n].parent
                      /\ CLASS_NAME_TO_NODE'[n].record = CLASS_NAME_TO_NODE[n].record
                /\ \A n \in Registered \cup {ROOT} :
                      SubclassesOf(CLASS_NAME_TO_NODE', DEPENDENCY_TREE_ROOT', n)
                        = IF n = parent
                          THEN Append(SubclassesOf(CLASS_NAME_TO_NODE, DEPENDENCY_TREE_ROOT, n), name)
                          ELSE SubclassesOf(CLASS_NAME_TO_NODE, DEPENDENCY_TREE_ROOT, n)

C3_RegisterClass == [][C3_Step]_vars

\* A class extending itself was refused while two classes were registered, one
\* under the other.
C3_Witness ==
    /\ last.op = "register_class"
    /\ last.raised
    /\ last.name = last.super_class_name
    /\ \E c \in Registered : CLASS_NAME_TO_NODE[c].parent \in Registered

\* The class of the chain c, parent(c), ... nearest to c that declares a member
\* named n of applicability app in the list `members` names, or None.
NearestDeclaring(c, n, app, members(_)) ==
    LET chain == Chain(TheTree, c)
        Declares(i) == \E m \in Range(members(CLASS_NAME_TO_NODE[chain[i]].record)) :
                            m.name = n /\ m.applicability = app
        hits == {i \in DOMAIN chain : Declares(i)}
    IN  IF hits = {} THEN None
        ELSE chain[CHOOSE i \in hits : \A j \in hits : i <= j]

FieldsOf(record) == record.fields
MethodsOf(record) == record.methods

ResolvedAsClaimed(members(_)) ==
    LET app == IF last.is_static THEN "static" ELSE "instance"
    IN  IF last.class_name \notin Registered THEN last.result = NoRecord
        ELSE LET owner == NearestDeclaring(last.class_name, last.name, app, members)
             IN  IF owner = None THEN last.result = NoRecord
                 ELSE /\ last.result \in Range(members(CLASS_NAME_TO_NODE[owner].record))
                      /\ last.result.name = last.name
                      /\ last.result.applicability = app
                      /\ last.result.containing_class = owner

\* C4: resolve_field and resolve_method return the declaration of the asked kind
\* and name in the nearest class of the chain C, parent(C), ... that declares
\* one, and nothing when no class of the chain does or C is not registered; a
\* member of the other kind is never returned.
C4_ResolveNearest ==
    /\ last.op = "resolve_field" => ResolvedAsClaimed(FieldsOf)
    /\ last.op = "resolve_method" => ResolvedAsClaimed(MethodsOf)

\* An instance field resolved from a class whose nearest declaration is its
\* parent's, shadowing the grandparent's, while the class itself declares a
\* static field of the same name.
C4_Witness ==
    /\ last.op = "resolve_field"
    /\ ~last.is_static
    /\ last.class_name \in Registered
    /\ last.result /= NoRecord
    /\ LET chain == Chain(TheTree, last.class_name)
       IN  /\ Len(chain) = 3
           /\ last.result.containing_class = chain[2]
           /\ \E f \in Range(CLASS_NAME_TO_NODE[chain[1]].record.fields) :
                  f.applicability = "static"
           /\ \E f \in Range(CLASS_NAME_TO_NODE[chain[3]].record.fields) :
                  f.applicability = "instance"

(***************************************************************************)
(* What a program is made of, for the claims: the expressions and          *)
(* statements of a body and the class names a class refers to.             *)
(***************************************************************************)
RECURSIVE SubExpressions(_)
SubExpressions(e) ==
    {e} \cup
    CASE e.tag = "FieldAccess" -> SubExpressions(e.base)
      [] e.tag = "MethodCall" ->
            SubExpressions(e.base)
              \cup UNION {SubExpressions(e.arguments[i]) : i \in DOMAIN e.arguments}
      [] e.tag = "NewObject" ->
            UNION {SubExpressions(e.arguments[i]) : i \in DOMAIN e.arguments}
      [] e.tag \in {"Assign", "Binary"} -> SubExpressions(e.left) \cup SubExpressions(e.right)
      [] OTHER -> {}

\* The statements under a statement, itself included: all of them, or those
\* generate_code is called on (IfStatementRecord.generate_code never calls
\* generate_code of its else statement).
RECURSIVE StatementsUnder(_, _)
StatementsUnder(stmt, generated) ==
    {stmt} \cup
    CASE stmt.tag = "Block" ->
            UNION {StatementsUnder(stmt.stmt_seq[i], generated) : i \in DOMAIN stmt.stmt_seq}
      [] stmt.tag = "If" ->
            StatementsUnder(stmt.then_stmt, generated)
              \cup (IF stmt.else_stmt = NoRecord \/ generated THEN {}
                    ELSE StatementsUnder(stmt.else_stmt, generated))
      [] stmt.tag = "While" -> StatementsUnder(stmt.while_body, generated)
      [] stmt.tag = "For" -> StatementsUnder(stmt.loop_body, generated)
      [] OTHER -> {}

SubStatements(stmt) == StatementsUnder(stmt, FALSE)

\* The expressions of a set of statements, subexpressions included.
ExpressionsIn(statements) ==
    UNION {CASE stmt.tag = "Return" ->
                  IF stmt.return_value = NoRecord THEN {}
                  ELSE SubExpressions(stmt.return_value)
             [] stmt.tag = "Expr" -> SubExpressions(stmt.expr)
             [] stmt.tag = "If" -> SubExpressions(stmt.if_expr)
             [] stmt.tag = "While" -> SubExpressions(stmt.while_condition)
             [] stmt.tag = "For" ->
                  UNION {SubExpressions(e) :
                         e \in {stmt.init_expr, stmt.loop_condition, stmt.update_expr}
                                  \ {NoRecord}}
             [] OTHER -> {} :
           stmt \in statements}

\* The expressions of a body, subexpressions included.
ExpressionsOf(body) == ExpressionsIn(SubStatements(body))

\* The expressions of a body generate_code is called on.
GeneratedExpressions(body) == ExpressionsIn(StatementsUnder(body, TRUE))

\* The bodies of a class, each with the context type_check gives it.
BodiesOf(class_rec) ==
    {[context |-> Context("constructor", NoRecord), applicability |-> "instance",
      body |-> class_rec.constructors[i].body] : i \in DOMAIN class_rec.constructors}
      \cup
    {[context |-> Context("method", class_rec.methods[i].return_type),
      applicability |-> class_rec.methods[i].applicability,
      body |-> class_rec.methods[i].body] : i \in DOMAIN class_rec.methods}

UserTypeNames(types) == {t.type : t \in {u \in types : u.kind = "user"}}

\* The class names a class refers to through the declared type of a field, of
\* a parameter or of a return value.
MemberTypeReferences(class_rec) ==
    UserTypeNames(
        {class_rec.fields[i].type : i \in DOMAIN class_rec.fields}
          \cup UNION {{c.parameters[j].type : j \in DOMAIN c.parameters} :
                      c \in Range(class_rec.constructors)}
          \cup UNION {{m.parameters[j].type : j \in DOMAIN m.parameters} :
                      m \in Range(class_rec.methods)}
          \cup {m.return_type : m \in Range(class_rec.methods)})

\* ... through extends.
ExtendsReferences(class_rec) ==
    IF class_rec.super_class_name = None THEN {} ELSE {class_rec.super_class_name}

\* ... through new and through a class reference in a body.
ExpressionReferences(class_rec) ==
    {e.class_name :
        e \in {x \in UNION {ExpressionsOf(b.body) : b \in BodiesOf(class_rec)} :
                  x.tag \in {"NewObject", "ClassReference"}}}

\* ... through the declared type of a local variable.
LocalTypeReferences(class_rec) ==
    UserTypeNames(
        UNION {{stmt.variables[i].type : i \in DOMAIN stmt.variables} :
               stmt \in {x \in UNION {SubStatements(b.body) : b \in BodiesOf(class_rec)} :
                            x.tag = "VariableDeclaration"}})

\* The names of the first n classes of the program.
NamesUpTo(n) == {classes[i].name : i \in 1..n}

\* The classes type_check has finished with.
Checked ==
    IF pc \in {"parse", "check_classes"} THEN {}
    ELSE IF pc \in {"type_check", "type_check_members"} THEN 1..(k - 1)
    ELSE IF pc = "exit" /\ stages[Len(stages)] \in {"parse", "type_check"} THEN 1..(k - 1)
    ELSE DOMAIN classes

(***************************************************************************)
(* Claims about main().                                                    *)
(***************************************************************************)
AllStages == <<"parse", "type_check", "layout", "codegen", "emit">>

\* The stage the driver is in, from the statement it is at.
StageOf(at) ==
    CASE at \in {"parse", "check_classes"} -> "parse"
      [] at \in {"type_check", "type_check_members"} -> "type_check"
      [] at \in {"layout", "layout_return"} -> "layout"
      [] at \in {"codegen", "append_static_data"} -> "codegen"
      [] at \in {"open", "print_code"} -> "emit"

\* The code of every class has been generated and the directive appended.
CodeComplete ==
    /\ Len(abcmc) = Len(classes) + 1
    /\ \A i \in DOMAIN classes :
          abcmc[i].kind = "class" /\ abcmc[i].name = classes[i].name
    /\ abcmc[Len(abcmc)].kind = ".static_data"

C1_Inv ==
    /\ stages = SubSeq(AllStages, 1, Len(stages))
    /\ outFile /= "absent" => CodeComplete /\ pc \in {"print_code", "done"}
    /\ pc = "exit" => exitCode = 1 /\ outFile = "absent"
    /\ pc = "done" => exitCode = 0 /\ stages = AllStages /\ outFile = "written"
    /\ pc \notin {"exit", "done"} => exitCode = None

\* One step of the driver: a stage that raises (or finds no class) ends the run
\* there, and a run that has ended takes no further step.
C1_Step ==
    /\ pc \notin {"exit", "done"}
    /\ pc' = "exit" => /\ exitCode' = 1
                       /\ outFile' = "absent"
                       /\ stages' \in {stages, Append(stages, StageOf(pc))}
                       /\ stages'[Len(stages')] = StageOf(pc)
    /\ pc = "parse" /\ (~source.syntax_ok \/ \E i \in DOMAIN source.decls :
                           source.decls[i].name = source.decls[i].super_class_name)
          => pc' = "exit"
    /\ pc = "check_classes" /\ classes = <<>> => pc' = "exit"
    /\ pc = "type_check" /\ classes[k].name \in DOMAIN CLASS_NAME_TO_NODE => pc' = "exit"
    /\ pc = "codegen" /\ (\E b \in BodiesOf(classes[k]) : \E e \in GeneratedExpressions(b.body) :
                             \/ e = Constant(STRING_T)
                             \/ e.tag \in {"This", "Super"} /\ b.applicability = "static")
          => pc' = "exit"

\* C1: the stages run in the order parse, type-check, layout, code generation,
\* emit; the output file is opened only after the code of every class has been
\* generated; a stage that raises, or a program without classes, ends the run
\* with exit code 1 at that first error, no later stage runs and no output
\* file is created.
C1_Pipeline == []C1_Inv /\ [][C1_Step]_vars

\* Code generation of the second class raised after the first class was
\* generated: the run ended with status 1 and without an output file.
C1_Witness ==
    /\ pc = "exit"
    /\ stages = SubSeq(AllStages, 1, 4)
    /\ Len(abcmc) = 1
    /\ k = 2
    /\ exitCode = 1
    /\ outFile = "absent"

(***************************************************************************)
(* Claims about type_check.                                                *)
(***************************************************************************)
\* While class k is checked the tree holds classes 1..k, and before it is
\* registered classes 1..k-1.
TreeHoldsPrefix ==
    /\ pc = "type_check_members" => Registered = NamesUpTo(k)
    /\ pc = "type_check" => Registered = NamesUpTo(k - 1)

\* Each way of referring to a class is accepted for the classes the tree holds
\* and rejected for every other name.
ReferenceAcceptedIffRegistered ==
    pc = "type_check_members" =>
        \A c \in {AllNames[i] : i \in DOMAIN AllNames} :
            /\ DeclaredTypeKnown(TheTree, UserTypeRecord(c)) <=> c \in NamesUpTo(k)
            /\ ClassReferenceType(TheTree, c) /= Raised <=> c \in NamesUpTo(k)
            /\ c \notin NamesUpTo(k) => NewObjectType(TheTree, classes[k].name, c, <<>>) = Raised
            /\ (c \in NamesUpTo(k) /\ \E i \in 1..k :
                    /\ classes[i].name = c
                    /\ Len(classes[i].constructors) = 1
                    /\ classes[i].constructors[1].visibility = "public"
                    /\ classes[i].constructors[1].parameters = <<>>)
                  => NewObjectType(TheTree, classes[k].name, c, <<>>) = UserTypeRecord(c)
            /\ register_class(TheTree, ClassRecord("E", c, <<>>, <<>>, <<>>)).raised
                  <=> c \notin NamesUpTo(k)

\* The statement as claimed: a class that passed type_check refers, in whatever
\* way, only to itself and to classes declared before it.
C5_LaterReferenceRejected ==
    /\ TreeHoldsPrefix
    /\ ReferenceAcceptedIffRegistered
    /\ \A i \in Checked :
          MemberTypeReferences(classes[i]) \cup ExtendsReferences(classes[i])
            \cup ExpressionReferences(classes[i]) \cup LocalTypeReferences(classes[i])
              \subseteq NamesUpTo(i)

\* C5 (amended): type_check takes the classes in declaration order, registers
\* class k and checks its members before class k+1 is registered, so while
\* class k is checked the tree holds exactly classes 1..k; a reference to
\* class k itself or to an earlier class is accepted; a reference to a class
\* declared later through the declared type of a field, of a parameter or of a
\* return value, through extends, through new or through a class reference is
\* rejected.  (The declared type of a local variable is not looked up.)
C5_TypeCheckOrder ==
    /\ TreeHoldsPrefix
    /\ ReferenceAcceptedIffRegistered
    /\ \A i \in Checked :
          MemberTypeReferences(classes[i]) \cup ExtendsReferences(classes[i])
            \cup ExpressionReferences(classes[i])
              \subseteq NamesUpTo(i)

\* The first of two classes was rejected by the type checker, and it refers
\* to the second through a member type, new or a class reference.
C5_Witness ==
    /\ pc = "exit"
    /\ stages = SubSeq(AllStages, 1, 2)
    /\ k = 1
    /\ Len(classes) = 2
    /\ classes[2].name \in MemberTypeReferences(classes[1])
                             \cup ExpressionReferences(classes[1])
    /\ Registered = {classes[1].name}

\* The field access, method call and new-object expressions of a body.
AccessExpressions(body) ==
    {e \in ExpressionsOf(body) : e.tag \in {"FieldAccess", "MethodCall", "NewObject"}}

\* The member such an expression resolves to in the tree, NoRecord when there
\* is none (or its base has no type).
ResolvedMember(cc, e) ==
    IF e.tag = "NewObject"
    THEN LET rec == get_class_record(TheTree, e.class_name)
         IN  IF rec = NoRecord \/ Len(rec.constructors) < 1 THEN NoRecord
             ELSE rec.constructors[1]
    ELSE LET base_type == resolve_type(TheTree, cc, e.base)
         IN  IF base_type = Raised \/ base_type.kind = "builtin" THEN NoRecord
             ELSE LET member == MemberOf(TheTree, cc, e)
                  IN  IF member = Raised THEN NoRecord ELSE member

\* The arguments of such an expression fit the member in number and type.
ArgumentsFit(cc, e, member) ==
    IF e.tag = "FieldAccess" THEN TRUE
    ELSE /\ Len(member.parameters) = Len(e.arguments)
         /\ ArgumentsAccepted(TheTree, cc, member.parameters, e.arguments)

\* C6: a field access, method call or new-object expression whose member is
\* private type-checks only in the class that declares the member, also when
\* a subclass reaches an inherited private member; one whose member is public
\* type-checks in every class.
C6_PrivateAccess ==
    pc = "type_check_members" =>
        \A b \in BodiesOf(classes[k]) : \A e \in AccessExpressions(b.body) :
            LET cc == classes[k].name
                member == ResolvedMember(cc, e)
            IN  (member /= NoRecord /\ ArgumentsFit(cc, e, member)) =>
                    /\ member.visibility \in Visibility
                    /\ resolve_type(TheTree, cc, e) /= Raised
                          <=> (member.visibility = "public" \/ member.containing_class = cc)

\* Class B, a subclass of A, is being checked and holds an expression that
\* resolves to a private member inherited from A: the expression is rejected.
C6_Witness ==
    /\ pc = "type_check_members"
    /\ classes[k].name = "B"
    /\ classes[k].super_class_name = "A"
    /\ \E b \in BodiesOf(classes[k]) : \E e \in AccessExpressions(b.body) :
          LET member == ResolvedMember("B", e)
          IN  /\ e.tag = "FieldAccess"
              /\ e.base = ThisExpression
              /\ member /= NoRecord
              /\ member.visibility = "private"
              /\ member.containing_class = "A"
              /\ resolve_type(TheTree, "B", e) = Raised

\* The return statements of a body.
ReturnsOf(body) == {stmt \in SubStatements(body) : stmt.tag = "Return"}

\* C7: a return statement (whose value, when it has one, has a type) is
\* rejected when it is inside a constructor, when it has a value and the
\* method is void, when it has no value and the method is not void, and when
\* the type of its value is not a subtype of the return type of the method;
\* it is accepted in every other case.
C7_ReturnStatement ==
    pc = "type_check_members" =>
        \A b \in BodiesOf(classes[k]) : \A stmt \in ReturnsOf(b.body) :
            LET cc == classes[k].name
                has_value == stmt.return_value /= NoRecord
                value_type == resolve_type(TheTree, cc, stmt.return_value)
                is_void == b.context.method_return_type = VOID
            IN  (has_value => value_type /= Raised) =>
                  (~resolve_type_correct(TheTree, cc, b.context, stmt)
                     <=> \/ b.context.method_type = "constructor"
                         \/ has_value /\ is_void
                         \/ ~has_value /\ ~is_void
                         \/ /\ has_value
                            /\ is_subtype(TheTree, value_type,
                                          b.context.method_return_type) /= True)

\* A constructor being type-checked holds a return statement with a well-typed value,
\* and the statement is rejected.
C7_Witness ==
    /\ pc = "type_check_members"
    /\ \E b \in BodiesOf(classes[k]) : \E stmt \in ReturnsOf(b.body) :
          /\ b.context.method_type = "constructor"
          /\ stmt.return_value /= NoRecord
          /\ resolve_type(TheTree, classes[k].name, stmt.return_value) = INT
          /\ ~resolve_type_correct(TheTree, classes[k].name, b.context, stmt)

(***************************************************************************)
(* Claims about the layout pass.                                           *)
(***************************************************************************)
\* resolve_sizes_and_offsets has returned.
LayoutReturned == pc = "codegen" \/ "codegen" \in Range(stages)

\* The loop of resolve_sizes_and_offsets is over.
LayoutComplete == pc = "layout_return" \/ LayoutReturned

\* The fields of class i with one applicability, by index.
FieldsWith(i, applicability) ==
    {j \in DOMAIN classes[i].fields : classes[i].fields[j].applicability = applicability}

\* The index of the super class of class i.
SuperIndex(i) == CHOOSE j \in DOMAIN classes : classes[j].name = classes[i].super_class_name

\* C8: after the layout pass every class has size = (size of its super class,
\* 0 without one) + (number of instance fields it declares), so size >=
\* super.size; the size of a class is assigned once, and when it is assigned
\* the size of its super class has been assigned already.
C8_ClassSize ==
    /\ LayoutComplete => DOMAIN size = DOMAIN classes
    /\ \A i \in DOMAIN size :
          /\ sizeWrites[i] = 1
          /\ classes[i].super_class_name = None =>
                size[i] = Cardinality(FieldsWith(i, "instance"))
          /\ classes[i].super_class_name /= None =>
                /\ SuperIndex(i) \in DOMAIN size
                /\ SuperIndex(i) < i
                /\ size[i] = size[SuperIndex(i)] + Cardinality(FieldsWith(i, "instance"))
                /\ size[i] >= size[SuperIndex(i)]

\* The layout pass is over for a class with instance fields whose super class
\* has instance fields too.
C8_Witness ==
    /\ LayoutComplete
    /\ \E i \in DOMAIN classes :
          /\ classes[i].super_class_name /= None
          /\ size[SuperIndex(i)] > 0
          /\ FieldsWith(i, "instance") /= {}
          /\ size[i] > size[SuperIndex(i)]

\* The statement as claimed: after the layout pass the offset of every field,
\* static or instance, is below the size of its class.
C9_EveryOffsetBelowSize ==
    LayoutComplete =>
        \A i \in DOMAIN classes : \A j \in DOMAIN classes[i].fields :
            fieldOffset[<<i, j>>] < size[i]

\* C9 (amended): after the layout pass the offset of every instance field is
\* below the size of its class.  (A static field takes its offset from the
\* counter shared by all classes, whatever the size of its class.)
C9_InstanceOffsetBelowSize ==
    LayoutComplete =>
        \A i \in DOMAIN classes : \A j \in FieldsWith(i, "instance") :
            fieldOffset[<<i, j>>] < size[i]

\* The layout pass is over for a subclass with MaxFields instance fields; the
\* last of them has the offset size - 1.
C9_Witness ==
    /\ LayoutComplete
    /\ \E i \in DOMAIN classes :
          /\ classes[i].super_class_name /= None
          /\ Cardinality(FieldsWith(i, "instance")) = MaxFields
          /\ fieldOffset[<<i, MaxFields>>] = size[i] - 1

\* The static fields of the program, and those before field j of class i in
\* class order then declaration order.
StaticFields ==
    UNION {{<<i, j>> : j \in FieldsWith(i, "static")} : i \in DOMAIN classes}

StaticFieldsBefore(i, j) ==
    {f \in StaticFields : f[1] < i \/ (f[1] = i /\ f[2] < j)}

\* C10: after the layout pass the static fields of all classes have the
\* offsets 0..S-1, pairwise distinct, in class order then declaration order,
\* S being the number of static fields; the pass returns S.
C10_StaticOffsets ==
    /\ LayoutComplete =>
          /\ \A f \in StaticFields :
                fieldOffset[f] = Cardinality(StaticFieldsBefore(f[1], f[2]))
          /\ {fieldOffset[f] : f \in StaticFields} = 0..(Cardinality(StaticFields) - 1)
          /\ \A f, g \in StaticFields : f /= g => fieldOffset[f] /= fieldOffset[g]
    /\ LayoutReturned => static_slots = Cardinality(StaticFields)

\* The pass has returned for a program of two classes that both declare a
\* static field after an instance field.
C10_Witness ==
    /\ LayoutReturned
    /\ Len(classes) >= 2
    /\ \A i \in 1..2 : /\ Len(classes[i].fields) >= 2
                       /\ classes[i].fields[1].applicability = "instance"
                       /\ classes[i].fields[2].applicability = "static"
    /\ fieldOffset[<<2, 2>>] = 1
    /\ static_slots >= 2
(***************************************************************************)
(* Claims about the emitted program.                                       *)
(***************************************************************************)
\* A line holds the text at position i.
HasAt(line, text, i) == SubSeq(line, i, i + Len(text) - 1) = text

StartsWith(line, text) == Len(line) >= Len(text) /\ HasAt(line, text, 1)

Contains(line, text) == \E i \in 1..(Len(line) - Len(text) + 1) : HasAt(line, text, i)

\* The file has been written.
Emitted == outFile = "written"

\* C11: in every emitted program the directive .static_data N is the last
\* line, after the code of every class, at column 0, on no other line, with
\* N the value the layout pass returned, the number of static fields.
C11_StaticData ==
    Emitted =>
        LET n == Len(outLines)
        IN  /\ n >= 1
            /\ outLines[n] = ".static_data " \o ToString(static_slots)
            /\ static_slots = Cardinality(StaticFields)
            /\ \A i \in 1..(n - 1) : ~Contains(outLines[i], ".static_data")
            /\ Len(abcmc) = Len(classes) + 1
            /\ \E debug \in BOOLEAN :
                  SubSeq(outLines, 1, n - 1)
                    = print_code(Flatten(SubSeq(abcmc, 1, Len(classes)), 1), debug)

\* A program of two classes with code and a static field has been emitted.
C11_Witness ==
    /\ Emitted
    /\ Len(classes) = 2
    /\ static_slots = 1
    /\ \A i \in DOMAIN classes : Len(abcmc[i].code) > 2

(***************************************************************************)
(* Claims about the records and the scopes the parser builds.              *)
(***************************************************************************)
\* The records of a list carry the ids 1, 2, ... in the order of the list.
Numbered(seq) == \A i \in DOMAIN seq : seq[i].id = i

\* No two records of a list share an id.
DistinctIds(seq) == \A i, j \in DOMAIN seq : i /= j => seq[i].id /= seq[j].id

\* The method and constructor records created so far.
MembersCreated == Range(created.methods) \cup Range(created.constructors)

\* C12: no two FieldRecords, no two MethodRecords and no two
\* ConstructorRecords share an id, each kind being numbered from 1 in the
\* order of creation; no two variables of one method or constructor share an
\* id (neither two it declared nor two of its variable table).
C12_UniqueIds ==
    /\ \A seq \in {created.fields, created.methods, created.constructors} :
          Numbered(seq) /\ DistinctIds(seq)
    /\ \A m \in MembersCreated :
          /\ DistinctIds(m.declared)
          /\ DistinctIds(variable_tables[m.variable_table])
          /\ \A i \in DOMAIN m.declared : m.declared[i].id >= 1

\* Two classes have been parsed, with two fields and a method each; the
\* second method, of the second class, declared two variables.
C12_Witness ==
    /\ Len(parsed) = 2
    /\ Len(created.fields) = 2
    /\ Len(created.methods) = 2
    /\ created.methods[1].record.containing_class /= created.methods[2].record.containing_class
    /\ Len(created.methods[2].declared) = 2

\* C13: the variable table of every method and constructor holds exactly
\* the formals and locals declared in that member, in the order of their
\* declaration, and the k-th of them has id k.
C13_MemberVariableTable ==
    \A m \in MembersCreated :
        /\ variable_tables[m.variable_table] = m.declared
        /\ Numbered(m.declared)

\* C14: add_symbol returns failure exactly when the name is in the symbol
\* table of the current scope, and then leaves the symbol table, the variable
\* table and the id of the record as they were; otherwise it appends the
\* record with the next id.  A formal fails when the member has a formal of
\* that name, a local of the body of a member when the member has a formal or
\* the body a local of that name, a local of a block inside when that block
\* has a local of that name, and only then.
C14_AddSymbol ==
    last_add.called =>
        LET found == last_add.name \in DOMAIN last_add.symbol_before
            count == Len(last_add.table_before)
        IN  /\ last_add.result = ~found
            /\ ~last_add.result =>
                  /\ last_add.symbol_after = last_add.symbol_before
                  /\ last_add.table_after = last_add.table_before
                  /\ last_add.id = NoId
            /\ last_add.result =>
                  /\ last_add.id = count + 1
                  /\ Len(last_add.table_after) = count + 1
                  /\ SubSeq(last_add.table_after, 1, count) = last_add.table_before
                  /\ last_add.table_after[count + 1].name = last_add.name
                  /\ last_add.table_after[count + 1].id = count + 1
                  /\ DOMAIN last_add.symbol_after
                        = DOMAIN last_add.symbol_before \cup {last_add.name}
                  /\ last_add.symbol_after[last_add.name] = last_add.table_after[count + 1]
            /\ last_add.result =
                  ~(CASE last_add.position = "formal" -> last_add.formal
                      [] last_add.position = "top" -> last_add.formal \/ last_add.own_scope
                      [] last_add.position = "nested" -> last_add.own_scope)

\* A local of the body of a member was declared with the name of a formal of
\* the member, and add_symbol returned failure.
C14_Witness ==
    /\ last_add.called
    /\ last_add.position = "top"
    /\ last_add.formal
    /\ ~last_add.own_scope
    /\ ~last_add.result

(***************************************************************************)
(* Claims about the temporary registers and the call sites.                *)
(***************************************************************************)
\* The sites of one kind among those generated so far.
SitesOf(kinds) == {i \in DOMAIN sites : sites[i].kind \in kinds}

\* C15: at the start of emitting every method and every constructor the
\* temporary counter is zero, whatever members and call sites were emitted
\* before it.
C15_MemberStartsAtZero == \A i \in SitesOf({"member"}) : sites[i].curr = 0

\* C16: for every method call and every new-object expression the temporary
\* counter after the code of the expression has been emitted is the counter
\* before emission of the expression began, plus one.
C16_CounterAfterCall ==
    \A i \in SitesOf({"call", "new"}) : sites[i].after = sites[i].before + 1

\* A call and a new-object expression were emitted with a call among their
\* arguments, one of them with temporaries allocated before it.
C16_Witness ==
    /\ \E i \in SitesOf({"call"}) :
          /\ sites[i].before > 0
          /\ \E j \in 1..Len(sites[i].arguments_code) :
                StartsWith(sites[i].arguments_code[j], "call ")
    /\ \E i \in SitesOf({"new"}) : sites[i].arguments > 0

C18_SaveRestore ==
    \A i \in SitesOf({"call"}) :
        LET site == sites[i]
            code == site.code
            needed == site.parameters + (IF site.instance THEN 1 ELSE 0)
            count == needed + site.seed
            first == Len(site.arguments_code)
            call == Len(code) - count - 2
            saved(j) == IF j <= needed THEN "a" \o ToString(j - 1)
                        ELSE "t" \o ToString(j - needed - 1)
        IN  /\ site.seed = site.before
            /\ SubSeq(code, 1, first) = site.arguments_code
            /\ \A j \in 1..count : code[first + j] = "save " \o saved(j)
            /\ call > first + count
            /\ StartsWith(code[call], "call ")
            /\ code[call + 1] \in {"move " \o site.out_t \o ", a0",
                                   "move_immed_i " \o site.out_t \o ", 0"}
            /\ \A j \in (call + 1)..(call + 2) : ~StartsWith(code[j], "restore ")
            /\ \A j \in 1..count : code[Len(code) + 1 - j] = "restore " \o saved(j)
            /\ \A j \in 1..count : saved(j) /= site.out_t

\* A call of an instance method with an argument that is itself a call was
\* emitted while two temporaries or more were in use.
C18_Witness ==
    \E i \in SitesOf({"call"}) :
        /\ sites[i].instance
        /\ sites[i].parameters >= 1
        /\ sites[i].seed >= 2
        /\ \E j \in 1..Len(sites[i].arguments_code) :
              StartsWith(sites[i].arguments_code[j], "call ")

(***************************************************************************)
(* Claims about the labels and the branches.                               *)
(***************************************************************************)
\* The line ends with the text.
EndsWith(line, text) ==
    /\ Len(line) >= Len(text)
    /\ SubSeq(line, Len(line) - Len(text) + 1, Len(line)) = text

\* The line defines a label.
IsLabel(line) == EndsWith(line, ":") /\ ~StartsWith(line, "#")

\* The line is a bz or a jmp.
IsBranch(line) == StartsWith(line, "bz ") \/ StartsWith(line, "jmp ")

\* The label a bz or a jmp names: the last operand of the instruction.
TargetOf(line) ==
    IF StartsWith(line, "jmp ") THEN SubSeq(line, 5, Len(line))
    ELSE LET comma == CHOOSE i \in 1..Len(line) : HasAt(line, ", ", i)
         IN  SubSeq(line, comma + 2, Len(line))

\* The lines of the classes of the emitted program.
EmittedCode == Flatten(SubSeq(abcmc, 1, Len(classes)), 1)

C19_Emitted ==
    Emitted =>
        LET lines == EmittedCode
            labels == {i \in DOMAIN lines : IsLabel(lines[i])}
        IN  /\ \A i, j \in labels : lines[i] = lines[j] => i = j
            /\ \A i \in DOMAIN lines :
                  IsBranch(lines[i]) =>
                      Cardinality({j \in labels : lines[j] = TargetOf(lines[i]) \o ":"}) = 1
            /\ Cardinality({i \in labels : StartsWith(lines[i], "L")}) = label_gen
            /\ \A i \in labels : StartsWith(lines[i], "L") =>
                  \E n \in 0..(label_gen - 1) : lines[i] = "L" \o ToString(n) \o ":"
            /\ Cardinality({i \in labels : StartsWith(lines[i], "M_")})
                  = Cardinality(UNION {{<<c, m>> : m \in DOMAIN classes[c].methods} :
                                           c \in DOMAIN classes})
            /\ Cardinality({i \in labels : StartsWith(lines[i], "C_")})
                  = Cardinality(UNION {{<<c, m>> : m \in DOMAIN classes[c].constructors} :
                                           c \in DOMAIN classes})

\* LabelGenerator.gen only ever advances while main() runs.
C19_Step == pc' /= "parse" => label_gen' >= label_gen

\* C19: the label generator is never reset during a compilation, so every
\* label it hands out is distinct; in the emitted program every label is
\* defined at most once, every bz and jmp names a label defined exactly once,
\* and the labels of the methods and of the constructors are pairwise
\* distinct, one for each method and one for each constructor.
C19_Labels == []C19_Emitted /\ [][C19_Step]_vars

\* A program with an if statement with an else branch and a loop has been
\* emitted: four labels or more, a bz and a jmp.
C19_Witness ==
    /\ Emitted
    /\ label_gen >= 4
    /\ \E i \in DOMAIN EmittedCode : StartsWith(EmittedCode[i], "jmp L")
    /\ \E i \in DOMAIN EmittedCode : StartsWith(EmittedCode[i], "bz ")

\* C20: for an if statement with an else branch the emitted code is the
\* code of the condition, bz to the else label, the code generated from the
\* then statement, jmp to the end label, the else label, the code generated
\* from the else statement, the end label.
C20_IfElse ==
    \A i \in SitesOf({"if"}) :
        LET site == sites[i]
            from_else == generate_code(Env, site.ctx, site.stmt.else_stmt,
                                       site.before_else)
        IN  /\ site.code = site.condition_code
                              \o <<"bz " \o site.condition_t \o ", " \o site.else_l>>
                              \o site.then_code
                              \o <<"jmp " \o site.end_l, site.else_l \o ":">>
                              \o site.else_code
                              \o <<site.end_l \o ":">>
            /\ site.else_code = from_else.code

(***************************************************************************)
(* The instructions of the operator expressions.                          *)
(***************************************************************************)
\* The instruction lines of a code: the lines that are neither a comment nor
\* a label.
Instructions(code) == SelectSeq(code, LAMBDA line : ~StartsWith(line, "#") /\ ~IsLabel(line))

\* The first place the text stands at in the line, 0 when it stands nowhere.
FirstAt(line, text) ==
    LET places == {i \in 1..(Len(line) - Len(text) + 1) : HasAt(line, text, i)}
    IN  IF places = {} THEN 0 ELSE CHOOSE i \in places : \A j \in places : i <= j

\* The operation of an instruction: the text before its first blank.
Opcode(line) ==
    IF FirstAt(line, " ") = 0 THEN line ELSE SubSeq(line, 1, FirstAt(line, " ") - 1)

RECURSIVE SplitOperands(_)
\* The operands of a text "x, y, z".
SplitOperands(text) ==
    IF FirstAt(text, ", ") = 0 THEN <<text>>
    ELSE <<SubSeq(text, 1, FirstAt(text, ", ") - 1)>>
           \o SplitOperands(SubSeq(text, FirstAt(text, ", ") + 2, Len(text)))

\* The operands of an instruction: the destination first.
Operands(line) ==
    IF FirstAt(line, " ") = 0 THEN <<>>
    ELSE SplitOperands(SubSeq(line, FirstAt(line, " ") + 1, Len(line)))

\* The instructions an operator expression emits after the code of its operands.
OwnInstructions(site) ==
    Instructions(SubSeq(site.code, Len(site.operands_code) + 1, Len(site.code)))

\* Every igt of the instructions that collapses a register (igt x, x, z)
\* reads a z that an earlier instruction among them loaded with 0.
ZeroLoaded(own) ==
    \A j \in DOMAIN own :
        (Opcode(own[j]) = "igt" /\ Operands(own[j])[1] = Operands(own[j])[2]) =>
            \E h \in 1..(j - 1) :
                /\ Opcode(own[h]) = "move_immed_i"
                /\ Operands(own[h]) = <<Operands(own[j])[3], "0">>

\* C21: for == on two int operands the instructions emitted after the code
\* of the operands are ilt, igt, iadd, move_immed_i of 0, igt, move_immed_i
\* of 1, isub, each a line of its own, and the register the collapsing igt
\* of the == and of the || emitter compares against was loaded with 0 by an
\* earlier instruction.
C21_EqualityInstructions ==
    \A i \in SitesOf({"operator"}) :
        LET own == OwnInstructions(sites[i])
        IN  /\ (sites[i].operator = "eq" /\ sites[i].types = <<INT, INT>>) =>
                  /\ [j \in DOMAIN own |-> Opcode(own[j])]
                       = <<"ilt", "igt", "iadd", "move_immed_i", "igt", "move_immed_i", "isub">>
                  /\ Operands(own[4])[2] = "0"
                  /\ Operands(own[6])[2] = "1"
            /\ sites[i].operator \in {"eq", "or"} => ZeroLoaded(own)

\* The operations of the instructions, in order.
Opcodes(own) == [j \in DOMAIN own |-> Opcode(own[j])]

\* C22: a unary minus on an int operand loads -1 with move_immed_i and
\* multiplies with imul, on a float operand it loads -1.0 with move_immed_f
\* and multiplies with fmul; move_immed_i of 1 followed by isub is emitted
\* for the boolean negation only.
C22_UnaryMinus ==
    \A i \in SitesOf({"operator"}) :
        LET own == OwnInstructions(sites[i])
        IN  sites[i].tag = "Unary" =>
              /\ (sites[i].operator = "uminus" /\ sites[i].types = <<INT>>) =>
                    /\ Opcodes(own) = <<"move_immed_i", "imul">>
                    /\ Operands(own[1])[2] = "-1"
              /\ (sites[i].operator = "uminus" /\ sites[i].types = <<FLOAT>>) =>
                    /\ Opcodes(own) = <<"move_immed_f", "fmul">>
                    /\ Operands(own[1])[2] = "-1.0"
              /\ (Opcodes(own) = <<"move_immed_i", "isub">> /\ Operands(own[1])[2] = "1") =>
                    sites[i].operator = "neg"

(***************************************************************************)
(* Claims about Scope.lookup_symbol.                                       *)
(***************************************************************************)
\* The frames of the member being parsed that declare the name: the current
\* block, the blocks around it and the formals.
DeclaringFrames(stack, name) ==
    {i \in 2..Len(stack) : \E j \in DOMAIN stack[i].locals : stack[i].locals[j].name = name}

Max(S) == CHOOSE x \in S : \A y \in S : y <= x

\* The declaration of the name in the innermost such frame, None without one.
InnermostDeclaration(stack, name) ==
    IF DeclaringFrames(stack, name) = {} THEN NoRecord
    ELSE LET locals == stack[Max(DeclaringFrames(stack, name))].locals
         IN  locals[CHOOSE j \in DOMAIN locals : locals[j].name = name]

\* The names some scope that is not one of these frames has declared: in a
\* block that was left or in another member.
DeclaredElsewhere ==
    {name \in VariableNames :
        \E t \in DOMAIN symbol_tables :
            /\ name \in DOMAIN symbol_tables[t]
            /\ \A i \in DOMAIN scope_stack : scope_stack[i].scope.symbol_table /= t}

\* C23: a lookup_symbol call from the current scope returns the declaration
\* of the name in the innermost scope among the current block, the blocks
\* around it and the formals of the member that declares it, and nothing when no
\* such scope declares it (the name being declared only in a block that was
\* left, in another member, or nowhere).
C23_Lookup ==
    [][last' /= last =>
         /\ last'.op = "lookup_symbol"
         /\ last'.rec = InnermostDeclaration(scope_stack, last'.name)
         /\ DeclaringFrames(scope_stack, last'.name) = {} => last'.rec = NoRecord]_vars

\* A lookup from a block inside the body finds the formal of the member while
\* the other name, declared only in a block that was left, is not found.
C23_Witness ==
    /\ last.op = "lookup_symbol"
    /\ Len(scope_stack) = 4
    /\ last.rec /= NoRecord
    /\ last.rec.variable_kind = "formal"
    /\ DeclaredElsewhere /= {}
    /\ DeclaringFrames(scope_stack, last.name) = {2}

\* A lookup of a name that only a scope outside the current chain declared.
C23_WitnessLeft ==
    /\ last.op = "lookup_symbol"
    /\ last.rec = NoRecord
    /\ last.name \in DeclaredElsewhere
    /\ DeclaringFrames(scope_stack, last.name) = {}

(***************************************************************************)
(* Claims about the registers of variables and of arguments.               *)
(***************************************************************************)
\* The member a site belongs to: the last member begun before it.
MemberSiteOf(n) ==
    sites[CHOOSE m \in 1..n :
              /\ sites[m].kind = "member"
              /\ \A x \in (m + 1)..n : sites[x].kind /= "member"]

\* The variables that were given a register between the start of the member
\* and the end of site n, the formals of the member included.
MemberVariables(n) == DOMAIN sites[n].value_reg \ DOMAIN MemberSiteOf(n).value_reg

\* The temporaries the generator has handed out and cannot hand out again
\* once its counter is at curr.
TemporariesBelow(curr) == {RegisterName("t", m) : m \in 0..(curr - 1)}

IsTemporary(reg) == SubSeq(reg, 1, 1) = "t"

\* C24: at every call site and new-object site of a member, once the counter
\* is reset to the seed, every temporary that a variable of the member holds
\* (taken at its first reference, inside the argument list included) is below
\* the counter, so the generator does not hand it out again: the register of
\* the call's result in particular is no variable's register.
C24_VariableRegisterKept ==
    \A n \in DOMAIN sites :
        sites[n].kind \in {"call", "new"} =>
            \A key \in MemberVariables(n) :
                LET reg == sites[n].value_reg[key]
                IN  /\ IsTemporary(reg) => reg \in TemporariesBelow(sites[n].seed)
                    /\ reg /= sites[n].out_t

\* The moves into the argument registers of a call site: the a_needed
\* instructions before its call instruction, the last call of its code.
SiteMoves(site) ==
    LET own == Instructions(site.code)
        call == Max({n \in DOMAIN own : Opcode(own[n]) = "call"})
    IN  SubSeq(own, call - site.a_needed, call - 1)

\* C25: at every call site and new-object site the moves into the argument
\* registers, executed in order, read no register that an earlier move of the
\* site has written, so each argument register holds at the call the value
\* its argument (or the receiver) was evaluated to, a formal of the enclosing
\* member that lives in an argument register included.
C25_ArgumentMoves ==
    \A n \in DOMAIN sites :
        sites[n].kind \in {"call", "new"} =>
            LET moves == SiteMoves(sites[n])
            IN  \A j \in DOMAIN moves :
                    /\ Opcode(moves[j]) = "move"
                    /\ \A i \in 1..(j - 1) :
                           Operands(moves[j])[2] /= Operands(moves[i])[1]

(***************************************************************************)
(* Claims about the paths through the emitted code.                        *)
(***************************************************************************)
\* The line is the label of a method or of a constructor.
IsMemberLabel(line) == IsLabel(line) /\ (StartsWith(line, "M_") \/ StartsWith(line, "C_"))

\* The lines that define the label.
LinesOf(lines, label) == {n \in DOMAIN lines : lines[n] = label \o ":"}

\* The lines execution goes to from line n: none after ret, the target after
\* jmp, the target or the next line after bz, the next line after any other
\* line (Len(lines) + 1 past the last line).
Successors(lines, n) ==
    IF n > Len(lines) \/ lines[n] = "ret" THEN {}
    ELSE IF StartsWith(lines[n], "jmp ") THEN LinesOf(lines, TargetOf(lines[n]))
    ELSE IF StartsWith(lines[n], "bz ") THEN {n + 1} \cup LinesOf(lines, TargetOf(lines[n]))
    ELSE {n + 1}

\* The lines some path from the lines of frontier reaches, seen included.
RECURSIVE Reachable(_, _, _)
Reachable(lines, seen, frontier) ==
    IF frontier = {} THEN seen
    ELSE LET next == UNION {Successors(lines, n) : n \in frontier} \ seen
         IN  Reachable(lines, seen \cup next, next)

\* C26: in the emitted program no path from the label of a member leaves the
\* code of the member: it reaches neither the label of another member nor the
\* end of the code, so it ends at a ret of the member.
C26_NoFallThrough ==
    Emitted =>
        LET lines == EmittedCode
        IN  \A m \in DOMAIN lines :
                IsMemberLabel(lines[m]) =>
                    \A n \in Reachable(lines, {m}, {m}) \ {m} :
                        n <= Len(lines) /\ ~IsMemberLabel(lines[n])

\* The lines some path from the lines of frontier reaches without passing a
\* line of avoided, seen included.
RECURSIVE ReachableAvoiding(_, _, _, _)
ReachableAvoiding(lines, avoided, seen, frontier) ==
    IF frontier = {} THEN seen
    ELSE LET next == (UNION {Successors(lines, n) : n \in frontier} \ seen) \ avoided
         IN  ReachableAvoiding(lines, avoided, seen \cup next, next)

\* C27: in the code of a for loop every path from a line of the body (a
\* continue included) to the label of the loop test, where the condition is
\* evaluated next, passes through the code of the update expression.
C27_ContinueRunsUpdate ==
    \A n \in DOMAIN sites :
        sites[n].kind = "for" =>
            LET site == sites[n]
                body == (site.body + 1)..(site.body + Len(site.body_code))
                update == (site.body + Len(site.body_code) + 1)
                            ..(site.body + Len(site.body_code) + Len(site.update_code))
            IN  /\ SubSeq(site.code, site.body + 1, site.body + Len(site.body_code))
                     = site.body_code
                /\ LinesOf(site.code, site.loop_test_l)
                     \cap ReachableAvoiding(site.code, update, body, body) = {}

(***************************************************************************)
(* Claims about the promotion of an int to float.                          *)
(***************************************************************************)
\* The registers the variables of the member of site n hold.
VariableRegisters(n) == {sites[n].value_reg[key] : key \in MemberVariables(n)}

\* C28: the code of an operator, of a call and of a new-object expression
\* that reads an int variable where a float is needed (an operand of
\* arithmetic, comparison or equality with a float, an argument for a float
\* parameter) promotes the value without writing the variable: no itof
\* instruction has the register of a variable as its destination.
C28_ReadKeepsVariable ==
    \A n \in SitesOf({"operator", "call", "new"}) :
        \A i \in DOMAIN sites[n].code :
            Opcode(sites[n].code[i]) = "itof" =>
                Operands(sites[n].code[i])[1] \notin VariableRegisters(n)

(***************************************************************************)
(* Claims about the shape of the dependency tree.                          *)
(***************************************************************************)
\* The node n parent links above c, the root when the root is reached before;
\* a name that is no node stays.
RECURSIVE Up(_, _)
Up(c, n) ==
    IF n = 0 \/ c \notin Registered THEN c ELSE Up(CLASS_NAME_TO_NODE[c].parent, n - 1)

\* The child list of a node.
ChildrenOf(c) ==
    IF c = ROOT THEN DEPENDENCY_TREE_ROOT.subclasses ELSE CLASS_NAME_TO_NODE[c].subclasses

\* How often the child list of p holds c.
TimesIn(p, c) == Cardinality({i \in DOMAIN ChildrenOf(p) : ChildrenOf(p)[i] = c})

\* C29: after any calls of register_class, those that raised included, the
\* parent links form a forest under the root: the parent of a registered
\* class is the root or a registered class, following parent from it reaches
\* the root within as many steps as there are classes and visits no class
\* twice, the class is once in the child list of its parent and in no other
\* child list, a child list names registered classes only; and a call of
\* is_subtype on the tree returns or raises.
C29_Forest ==
    /\ DEPENDENCY_TREE_ROOT.parent = None
    /\ \A c \in Registered :
          /\ CLASS_NAME_TO_NODE[c].parent \in Registered \cup {ROOT}
          /\ Up(c, Cardinality(Registered)) = ROOT
          /\ \A i, j \in 0..Cardinality(Registered) :
                (i < j /\ Up(c, i) = Up(c, j)) => Up(c, i) = ROOT
          /\ \A p \in Registered \cup {ROOT} :
                TimesIn(p, c) = IF p = CLASS_NAME_TO_NODE[c].parent THEN 1 ELSE 0
    /\ \A p \in Registered \cup {ROOT} : Range(ChildrenOf(p)) \subseteq Registered
    /\ last.op = "is_subtype" => last.result \in {True, False, KeyError, Exception}

\* Three classes are registered one under the other, and the last call of
\* register_class, for a registered name with a registered super-class, raised.
C29_Witness ==
    /\ Registered = ClassNames
    /\ \E c \in Registered : Up(c, 2) \in Registered
    /\ last.op = "register_class"
    /\ last.raised
    /\ last.super_class_name \in Registered \ {last.name}

(***************************************************************************)
(* Claims about the offsets of the instance fields.                        *)
(***************************************************************************)
\* The size of the super class of class i, 0 without one.
SizeOfSuper(i) == IF classes[i].super_class_name = None THEN 0 ELSE size[SuperIndex(i)]

\* The instance fields an object of class i holds: those of the class and of
\* the classes above it, as pairs of class index and field index.
InstanceFieldsOf(i) ==
    UNION {{<<IndexOfClass(classes, c), j>> :
               j \in FieldsWith(IndexOfClass(classes, c), "instance")} :
           c \in Range(Chain(TheTree, classes[i].name))}

\* C30: after the layout pass the instance fields a class declares have the
\* offsets super.size, super.size + 1, ... in declaration order, up to
\* size - 1; so no two instance fields of an object, declared or inherited,
\* share an offset, and the offsets of the inherited fields are those the
\* fields have in the super class.
C30_InstanceOffsets ==
    LayoutComplete =>
        \A i \in DOMAIN classes :
            /\ \A j \in FieldsWith(i, "instance") :
                  fieldOffset[<<i, j>>]
                    = SizeOfSuper(i) + Cardinality({h \in FieldsWith(i, "instance") : h < j})
            /\ {fieldOffset[<<i, j>>] : j \in FieldsWith(i, "instance")}
                  = SizeOfSuper(i)..(size[i] - 1)
            /\ \A f, h \in InstanceFieldsOf(i) :
                  f /= h => fieldOffset[f] /= fieldOffset[h]
            /\ classes[i].super_class_name /= None =>
                  /\ InstanceFieldsOf(SuperIndex(i)) \subseteq InstanceFieldsOf(i)
                  /\ {fieldOffset[f] : f \in InstanceFieldsOf(SuperIndex(i))}
                        = 0..(SizeOfSuper(i) - 1)

\* The layout pass is over for a class that declares a static field and then
\* an instance field, under a super class with two instance fields.
C30_Witness ==
    /\ LayoutComplete
    /\ \E i \in DOMAIN classes :
          /\ classes[i].super_class_name /= None
          /\ size[SuperIndex(i)] = MaxFields
          /\ 1 \in FieldsWith(i, "static")
          /\ 2 \in FieldsWith(i, "instance")
          /\ fieldOffset[<<i, 2>>] = MaxFields
====
